---- MODULE Spec2Model ----
(***************************************************************************)
(* A model of the nansen-skill trading shim: SignalLog, Cache,             *)
(* RateLimiter and the NansenTrader scan / monitor pipeline.               *)
(*                                                                         *)
(* Time is the value of Date.now() in milliseconds (variable now).         *)
(* JavaScript objects are functions from field names to values: a field    *)
(* that is not set is not in the DOMAIN, and object spread is Merge.       *)
(***************************************************************************)
EXTENDS Integers, Sequences, FiniteSets, TLC

VARIABLES
  now,        \* Date.now()
  op,         \* the last operation performed and its arguments
  ret,        \* the signals returned by the last SignalLog operation
  signals,    \* SignalLog.signals, a Map in insertion order
  disk,       \* the persisted snapshot written by SignalLog.save
  autoSave,   \* SignalLog.autoSave
  cstore,     \* Cache.store: key -> entry, for the keys that are set
  cstats,     \* Cache.stats
  defaultTtl, \* Cache.defaultTtl
  cpend,      \* per caller: the getOrFetch call awaiting its fetcher
  lastFetch,  \* history: per key, when getOrFetch last stored a value
  mk,         \* the last Cache.makeKey call: arguments and result
  tokens,     \* RateLimiter.tokens, in thousandths of a token
  lastRefill, \* RateLimiter.lastRefill
  lastRequest,\* RateLimiter.lastRequest
  rlconfig,   \* RateLimiter.config
  rlstats,    \* RateLimiter.stats
  rlpc,       \* per caller: where its acquire call is suspended
  rlast,      \* history: the last acquire that returned (n flips at each)
              \* and the tokens granted so far
  pin,        \* the risk pipeline's input: candidates, RiskConfig, limit
  pout,       \* the risk pipeline's stages, << >> until it has run
  riskConfig, \* NansenTrader.riskConfig
  enableRateLimit, \* NansenTrader.config.enableRateLimit !== false
  sc,         \* per scan call in flight: its locals and where it is suspended
  mon,        \* the monitor: its interval timer and its seen set
  delivered   \* history: the onSignal invocations of the monitor

logVars == <<ret, signals, disk, autoSave>>
cacheVars == <<cstore, cstats, defaultTtl, cpend, lastFetch>>
rlVars == <<tokens, lastRefill, lastRequest, rlconfig, rlstats, rlpc, rlast>>
pipeVars == <<pin, pout>>
traderVars == <<riskConfig, enableRateLimit, sc, mon, delivered>>

vars == <<now, op, ret, signals, disk, autoSave,
          cstore, cstats, defaultTtl, cpend, lastFetch, mk,
          tokens, lastRefill, lastRequest, rlconfig, rlstats, rlpc, rlast,
          pin, pout, riskConfig, enableRateLimit, sc, mon, delivered>>

(***************************************************************************)
(* Bounds of the model                                                     *)
(***************************************************************************)
MaxLogTime == 1      \* the clock of the SignalLog specification stops here
MaxCacheTime == 3    \* the clock of the Cache specification stops here
MaxLookups == 3      \* get / getOrFetch calls made in the Cache specification
MaxParams == 3       \* most parameters of a makeKey call
MaxRLTicks == 13     \* clock ticks of the RateLimiter specification
MaxRequests == 2     \* acquire calls made in the RateLimiter specification
MaxCands == 3        \* most candidates handed to the risk pipeline
MaxScans == 2        \* scan calls made in the trader specifications
MaxTraderTime == 2   \* the clock of the trader specifications stops this late
MaxRows == 3         \* most rows in a netflow response

(***************************************************************************)
(* JavaScript helpers                                                      *)
(***************************************************************************)
\* { ...a, ...b }
Merge(a, b) ==
  [k \in (DOMAIN a) \cup (DOMAIN b) |-> IF k \in DOMAIN b THEN b[k] ELSE a[k]]

Has(o, k) == k \in DOMAIN o

Abs(x) == IF x < 0 THEN -x ELSE x

RECURSIVE Gcd(_, _)
Gcd(a, b) == IF b = 0 THEN a ELSE Gcd(b, a % b)

\* the number n / d as a fraction in lowest terms with a positive denominator
Frac(n, d) ==
  LET g == Gcd(Abs(n), Abs(d))
      s == IF d < 0 THEN -1 ELSE 1
  IN  <<(s * n) \div g, (s * d) \div g>>

(***************************************************************************)
(* SignalLog                                                               *)
(***************************************************************************)
Chains == {"base", "ethereum"}
Tokens == {"X", "Y"}
Modes == {"accumulation", "distribution"}

\* the candidates handed to log and logBatch: CandX2 and CandX6 differ in the
\* score only, so they have the same (chain, token, type, timestamp)
CandX2 ==
  [chain |-> "base", token |-> "X", type |-> "accumulation",
   timestamp |-> 1, score |-> 2]
CandX6 == [CandX2 EXCEPT !.score = 6]
CandY6 == [CandX6 EXCEPT !.token = "Y"]

LogCands == {CandX2, CandX6, CandY6}

\* SignalLog.generateId
generateId(signal) ==
  signal.chain \o ":" \o signal.token \o ":" \o signal.type \o ":"
    \o ToString(signal.timestamp)

\* Map.has / Map.get on the insertion-ordered map
MapHas(m, id) == \E i \in 1..Len(m) : m[i].id = id
MapIndex(m, id) == CHOOSE i \in 1..Len(m) : m[i].id = id
MapGet(m, id) == m[MapIndex(m, id)]
\* Map.set: an existing key keeps its position
MapSet(m, id, v) ==
  IF MapHas(m, id) THEN [m EXCEPT ![MapIndex(m, id)] = v] ELSE Append(m, v)

\* the entry log and logBatch build for a signal that is not stored yet
NewEntry(signal, t) ==
  Merge(signal, [id |-> generateId(signal), loggedAt |-> t, acted |-> FALSE])

\* a log that stores its entry without looking for a stored one
LogOneNoCheck(m, signal, t) ==
  <<MapSet(m, generateId(signal), NewEntry(signal, t)), NewEntry(signal, t)>>

\* one log / logBatch item: <<store after the item, signal returned>>
LogOne(m, signal, t) ==
  LET id == generateId(signal) IN
  IF MapHas(m, id) THEN <<m, MapGet(m, id)>>
  ELSE <<MapSet(m, id, NewEntry(signal, t)), NewEntry(signal, t)>>

\* a logBatch that stores a fresh entry for every item of the batch
RECURSIVE LogAllNoCheck(_, _, _)
LogAllNoCheck(m, batch, t) ==
  IF batch = <<>> THEN <<m, <<>>>>
  ELSE LET first == LogOneNoCheck(m, Head(batch), t)
           rest == LogAllNoCheck(first[1], Tail(batch), t)
       IN  <<rest[1], <<first[2]>> \o rest[2]>>

\* logBatch's map over the batch: <<store, signals returned>>
RECURSIVE LogAll(_, _, _)
LogAll(m, batch, t) ==
  IF batch = <<>> THEN <<m, <<>>>>
  ELSE LET first == LogOne(m, Head(batch), t)
           rest == LogAll(first[1], Tail(batch), t)
       IN  <<rest[1], <<first[2]>> \o rest[2]>>

\* save(): JSON.stringify drops the fields whose value is undefined
Undefined == "undefined"

\* (notes is the only field a caller of this model leaves undefined)
IsUndefined(o, f) == f = "notes" /\ o[f] = Undefined

Defined(o) == [k \in {f \in DOMAIN o : ~IsUndefined(o, f)} |-> o[k]]

Serialize(s) ==
  IF Has(s, "outcome") THEN [s EXCEPT !["outcome"] = Defined(s.outcome)] ELSE s

Save(m) == [i \in 1..Len(m) |-> Serialize(m[i])]

Log(signal) ==
  /\ LET r == LogOne(signals, signal, now) IN
       /\ signals' = r[1]
       /\ ret' = <<r[2]>>
       /\ disk' = IF MapHas(signals, generateId(signal)) THEN disk
                  ELSE IF autoSave THEN Save(r[1]) ELSE disk
  /\ op' = [name |-> "log", cands |-> <<signal>>]
  /\ UNCHANGED <<now, autoSave, cacheVars, mk, rlVars, pipeVars, traderVars>>

LogBatch(batch) ==
  /\ LET r == LogAll(signals, batch, now) IN
       /\ signals' = r[1]
       /\ ret' = r[2]
       /\ disk' = IF autoSave THEN Save(r[1]) ELSE disk
  /\ op' = [name |-> "logBatch", cands |-> batch]
  /\ UNCHANGED <<now, autoSave, cacheVars, mk, rlVars, pipeVars, traderVars>>

\* a markActed that creates the record of an id it does not know
MarkActedUpsert(id, action, notes) ==
  /\ LET signal == Merge(IF MapHas(signals, id) THEN MapGet(signals, id)
                         ELSE [id |-> id],
                         [acted |-> TRUE,
                          outcome |-> [action |-> action, executedAt |-> now,
                                       notes |-> notes]])
     IN /\ signals' = MapSet(signals, id, signal)
        /\ ret' = <<signal>>
        /\ disk' = IF autoSave THEN Save(signals') ELSE disk
  /\ op' = [name |-> "markActed", id |-> id, action |-> action,
            saved |-> autoSave]
  /\ UNCHANGED <<now, autoSave, cacheVars, mk, rlVars, pipeVars, traderVars>>

\* (op.saved: the call reached this.save())
MarkActed(id, action, notes) ==
  /\ IF MapHas(signals, id)
     THEN LET signal == Merge(MapGet(signals, id),
                 [acted |-> TRUE,
                  outcome |-> [action |-> action, executedAt |-> now,
                               notes |-> notes]])
          IN /\ signals' = MapSet(signals, id, signal)
             /\ ret' = <<signal>>
             /\ disk' = IF autoSave THEN Save(signals') ELSE disk
     ELSE /\ ret' = <<>>
          /\ UNCHANGED <<signals, disk>>
  /\ op' = [name |-> "markActed", id |-> id, action |-> action,
            saved |-> MapHas(signals, id) /\ autoSave]
  /\ UNCHANGED <<now, autoSave, cacheVars, mk, rlVars, pipeVars, traderVars>>

\* JavaScript truthiness of a number
Truthy(x) == x # 0

\* the outcome recordOutcome stores
MergedOutcome(signal, outcome) ==
  LET merged == Merge(IF Has(signal, "outcome") THEN signal.outcome
                      ELSE << >>, outcome)
  IN  IF /\ Has(merged, "entryPrice") /\ Truthy(merged.entryPrice)
         /\ Has(merged, "exitPrice") /\ Truthy(merged.exitPrice)
      THEN Merge(merged,
             [pnl |-> merged.exitPrice - merged.entryPrice,
              pnlPercent |-> Frac((merged.exitPrice - merged.entryPrice) * 100,
                                  merged.entryPrice)])
      ELSE merged

RecordOutcome(id, outcome) ==
  /\ IF MapHas(signals, id)
     THEN LET signal == Merge(MapGet(signals, id),
                 [outcome |-> MergedOutcome(MapGet(signals, id), outcome)])
          IN /\ signals' = MapSet(signals, id, signal)
             /\ ret' = <<signal>>
             /\ disk' = IF autoSave THEN Save(signals') ELSE disk
     ELSE /\ ret' = <<>>
          /\ UNCHANGED <<signals, disk>>
  /\ op' = [name |-> "recordOutcome", id |-> id, outcome |-> outcome,
            saved |-> MapHas(signals, id) /\ autoSave]
  /\ UNCHANGED <<now, autoSave, cacheVars, mk, rlVars, pipeVars, traderVars>>

\* a clear that empties the store and leaves the file as it is
ClearUnsaved ==
  /\ signals' = <<>>
  /\ UNCHANGED disk
  /\ ret' = <<>>
  /\ op' = [name |-> "clear"]
  /\ UNCHANGED <<now, autoSave, cacheVars, mk, rlVars, pipeVars, traderVars>>

Clear ==
  /\ signals' = <<>>
  /\ disk' = IF autoSave THEN <<>> ELSE disk
  /\ ret' = <<>>
  /\ op' = [name |-> "clear"]
  /\ UNCHANGED <<now, autoSave, cacheVars, mk, rlVars, pipeVars, traderVars>>

LogTick ==
  /\ now < MaxLogTime
  /\ now' = now + 1
  /\ op' = [name |-> "tick"]
  /\ UNCHANGED <<logVars, cacheVars, mk, rlVars, pipeVars, traderVars>>

\* the ids and outcomes the callers of the SignalLog specification pass
LogIds == {generateId(c) : c \in LogCands} \cup {"base:Z:accumulation:1"}

Batches ==
  {<< >>, <<CandX2, CandX6>>, <<CandY6, CandX6>>, <<CandX6, CandY6, CandX2>>}

PartialOutcomes ==
  { [entryPrice |-> 100, exitPrice |-> 150, pnl |-> 7,
     pnlPercent |-> Frac(7, 1)],
    [exitPrice |-> 0] }

\* the (action, notes) arguments of markActed
MarkArgs == {<<"buy", Undefined>>}

(***************************************************************************)
(* Cache.makeKey                                                           *)
(***************************************************************************)
\* A parameter object is the sequence of its <<name, value>> properties in
\* insertion order.  A value is a number, a string or a nested object.
Num(n) == [t |-> "num", n |-> n]
Str(x) == [t |-> "str", s |-> x]
Obj(ps) == [t |-> "obj", ps |-> ps]

\* the property names of the model in the order of Array.prototype.sort
\* (UTF-16 code units): "10" < "9" < "chain" < "mode" < "token"
SortedNames == <<"10", "9", "chain", "mode", "token">>
ParamNames == {SortedNames[i] : i \in 1..Len(SortedNames)}
Rank(name) == CHOOSE i \in 1..Len(SortedNames) : SortedNames[i] = name

\* the names that are array indices, with their numeric value
IndexNames == {"9", "10"}
IndexValue(name) == IF name = "9" THEN 9 ELSE 10

\* the names in seq that satisfy Keep, in the order of seq
RECURSIVE FilterNames(_, _)
FilterNames(seq, keep) ==
  IF seq = << >> THEN << >>
  ELSE IF Head(seq) \in keep THEN <<Head(seq)>> \o FilterNames(Tail(seq), keep)
       ELSE FilterNames(Tail(seq), keep)

\* insertion sort of names by a "less than" given as a set of pairs
RECURSIVE InsertName(_, _, _)
InsertName(x, sorted, less) ==
  IF sorted = << >> THEN <<x>>
  ELSE IF <<x, Head(sorted)>> \in less THEN <<x>> \o sorted
       ELSE <<Head(sorted)>> \o InsertName(x, Tail(sorted), less)

RECURSIVE SortNames(_, _)
SortNames(seq, less) ==
  IF seq = << >> THEN << >>
  ELSE InsertName(Head(seq), SortNames(Tail(seq), less), less)

NumericLess ==
  {<<a, b>> \in IndexNames \X IndexNames : IndexValue(a) < IndexValue(b)}
CodeUnitLess == {<<a, b>> \in ParamNames \X ParamNames : Rank(a) < Rank(b)}

NamesOf(params) == [i \in 1..Len(params) |-> params[i][1]]
ValueOf(params, name) ==
  params[CHOOSE i \in 1..Len(params) : params[i][1] = name][2]

\* Object.keys: array indices in ascending numeric order, then the other
\* names in insertion order
ObjectKeys(params) ==
  SortNames(FilterNames(NamesOf(params), IndexNames), NumericLess)
    \o FilterNames(NamesOf(params), ParamNames \ IndexNames)

RECURSIVE Join(_, _)
Join(strs, sep) ==
  IF strs = << >> THEN ""
  ELSE IF Len(strs) = 1 THEN strs[1]
       ELSE strs[1] \o sep \o Join(Tail(strs), sep)

Quote(x) == "\"" \o x \o "\""

\* JSON.stringify of a value; a nested object keeps its own key order
JsonStringify(val) ==
  IF val.t = "num" THEN ToString(val.n)
  ELSE IF val.t = "str" THEN Quote(val.s)
  ELSE LET keys == ObjectKeys(val.ps)
           member(k) ==
             LET w == ValueOf(val.ps, k) IN
             Quote(k) \o ":" \o
               (IF w.t = "num" THEN ToString(w.n) ELSE Quote(w.s))
       IN "{" \o Join([i \in 1..Len(keys) |-> member(keys[i])], ",") \o "}"

\* makeKey without the sort
makeKeyUnsorted(prefix, params) ==
  LET keys == ObjectKeys(params) IN
  prefix \o ":" \o
    Join([i \in 1..Len(keys) |->
            keys[i] \o "=" \o JsonStringify(ValueOf(params, keys[i]))], "&")

\* Cache.makeKey
makeKey(prefix, params) ==
  LET keys == SortNames(ObjectKeys(params), CodeUnitLess) IN
  prefix \o ":" \o
    Join([i \in 1..Len(keys) |->
            keys[i] \o "=" \o JsonStringify(ValueOf(params, keys[i]))], "&")

\* the arguments of the makeKey calls of the model
KeyPrefixes == {"p", "scan"}
KeyValues ==
  { Num(1), Str("base"),
    Obj(<< <<"chain", Num(1)>>, <<"mode", Str("a")>> >>),
    Obj(<< <<"mode", Str("a")>>, <<"chain", Num(1)>> >>) }

Injective(f) == \A i, j \in DOMAIN f : f[i] = f[j] => i = j

KeyParams ==
  UNION { {ps \in [1..n -> (ParamNames \ {"token"}) \X KeyValues] :
             Injective(NamesOf(ps))}
          : n \in 0..MaxParams }

\* mk.key is << >> until the call has returned
NoKey == [prefix |-> "", params |-> << >>, key |-> <<"">>]

MakeKeyCall ==
  /\ mk.key = << >>
  /\ mk' = [mk EXCEPT !.key = <<makeKey(mk.prefix, mk.params)>>]
  /\ op' = [name |-> "makeKey"]
  /\ UNCHANGED <<now, logVars, cacheVars, rlVars, pipeVars, traderVars>>

(***************************************************************************)
(* Cache                                                                   *)
(***************************************************************************)
\* the keys scan uses for its (chain, mode) pairs
ScanKey(chain, mode) ==
  makeKey("scan", << <<"chain", Str(chain)>>, <<"mode", Str(mode)>> >>)

CacheKeys == {ScanKey("base", "accumulation"), ScanKey("ethereum", "accumulation")}
CacheValues == {"v1", "v2"}
\* an optional number argument is << >> when it is not passed
TtlArgs == {<<0>>, <<2>>}
CreditArgs == {1, 5}
\* the callers of getOrFetch and acquire: one for each scan call
Callers == 1..MaxScans

Idle == [st |-> "idle"]

\* new Cache(defaultTtlMs)
CacheNew(defaultTtlMs) ==
  /\ cstore = << >>
  /\ cstats = [hits |-> 0, misses |-> 0, creditsSaved |-> 0]
  /\ defaultTtl = defaultTtlMs
  /\ cpend = [p \in Callers |-> Idle]
  /\ lastFetch = << >>

CacheInit == CacheNew(3)

Remove(f, ks) == [k \in (DOMAIN f) \ ks |-> f[k]]

\* Cache.get: <<store, stats, hit>>
CacheGet(store, stats, key, t) ==
  IF ~Has(store, key)
  THEN <<store, [stats EXCEPT !.misses = @ + 1], FALSE>>
  ELSE IF t > store[key].expiry
       THEN <<Remove(store, {key}), [stats EXCEPT !.misses = @ + 1], FALSE>>
       ELSE <<[store EXCEPT ![key].hits = @ + 1],
              [stats EXCEPT !.hits = @ + 1], TRUE>>

\* ttlMs || this.defaultTtl
EffectiveTtl(ttl, dflt) == IF ttl # << >> /\ Truthy(ttl[1]) THEN ttl[1] ELSE dflt

\* Cache.set
CacheSet(store, key, data, ttl, dflt, t) ==
  Merge(store,
        [k \in {key} |->
           [data |-> data, expiry |-> t + EffectiveTtl(ttl, dflt), hits |-> 0]])

Lookups == cstats.hits + cstats.misses

Get(key) ==
  /\ Lookups < MaxLookups
  /\ LET r == CacheGet(cstore, cstats, key, now) IN
       /\ cstore' = r[1]
       /\ cstats' = r[2]
       /\ op' = [name |-> "get", key |-> key, hit |-> r[3]]
  /\ UNCHANGED <<now, logVars, defaultTtl, cpend, lastFetch, mk, rlVars, pipeVars, traderVars>>

Set(key, data, ttl) ==
  /\ cstore' = CacheSet(cstore, key, data, ttl, defaultTtl, now)
  /\ lastFetch' = Remove(lastFetch, {key})
  /\ op' = [name |-> "set", key |-> key]
  /\ UNCHANGED <<now, logVars, cstats, defaultTtl, cpend, mk, rlVars, pipeVars, traderVars>>

\* getOrFetch up to its await, on the cache's variables: a hit returns, a
\* miss calls the fetcher
GetOrFetchCall(p, key, ttl, credits) ==
  LET r == CacheGet(cstore, cstats, key, now) IN
    /\ cstore' = r[1]
    /\ IF r[3]
       THEN /\ cstats' = [r[2] EXCEPT !.creditsSaved = @ + credits]
            /\ cpend' = cpend
       ELSE /\ cstats' = r[2]
            /\ cpend' = [cpend EXCEPT ![p] =
                 [st |-> "fetching", key |-> key, ttl |-> ttl]]
    /\ UNCHANGED <<defaultTtl, lastFetch>>

\* whether the lookup at the head of getOrFetch is a hit
IsHit(key) == CacheGet(cstore, cstats, key, now)[3]

GetOrFetch(p, key, ttl, credits) ==
  /\ cpend[p] = Idle
  /\ Lookups < MaxLookups
  /\ GetOrFetchCall(p, key, ttl, credits)
  /\ op' = [name |-> "getOrFetch", caller |-> p, key |-> key,
            ttl |-> ttl, credits |-> credits, hit |-> IsHit(key),
            value |-> IF IsHit(key) THEN <<cstore[key].data>> ELSE << >>]
  /\ UNCHANGED <<now, logVars, mk, rlVars, pipeVars, traderVars>>

\* the fetcher resolves: getOrFetch stores the value and returns it
\* a set that keeps an entry that is there (first write wins)
FetchResolveFirstWins(p, data) ==
  /\ cstore' = IF Has(cstore, cpend[p].key) THEN cstore
               ELSE CacheSet(cstore, cpend[p].key, data, cpend[p].ttl,
                             defaultTtl, now)
  /\ lastFetch' = Merge(lastFetch,
       [k \in {cpend[p].key} |->
          [at |-> now, ttl |-> cpend[p].ttl]])
  /\ cpend' = [cpend EXCEPT ![p] = Idle]
  /\ UNCHANGED <<cstats, defaultTtl>>

FetchResolveCall(p, data) ==
  /\ cstore' = CacheSet(cstore, cpend[p].key, data, cpend[p].ttl, defaultTtl, now)
  /\ lastFetch' = Merge(lastFetch,
       [k \in {cpend[p].key} |->
          [at |-> now, ttl |-> cpend[p].ttl]])
  /\ cpend' = [cpend EXCEPT ![p] = Idle]
  /\ UNCHANGED <<cstats, defaultTtl>>

FetchResolve(p, data) ==
  /\ cpend[p].st = "fetching"
  /\ FetchResolveCall(p, data)
  /\ op' = [name |-> "fetched", caller |-> p, value |-> data,
            key |-> cpend[p].key, ttl |-> cpend[p].ttl,
            over |-> IF Has(cstore, cpend[p].key)
                     THEN <<cstore[cpend[p].key]>> ELSE << >>]
  /\ UNCHANGED <<now, logVars, mk, rlVars, pipeVars, traderVars>>

\* the fetcher rejects: getOrFetch throws and stores nothing
FetchReject(p) ==
  /\ cpend[p].st = "fetching"
  /\ cpend' = [cpend EXCEPT ![p] = Idle]
  /\ op' = [name |-> "fetchFailed", caller |-> p]
  /\ UNCHANGED <<now, logVars, cstore, cstats, defaultTtl, lastFetch, mk, rlVars, pipeVars, traderVars>>

Invalidate(key) ==
  /\ cstore' = Remove(cstore, {key})
  /\ lastFetch' = Remove(lastFetch, {key})
  /\ op' = [name |-> "invalidate", key |-> key]
  /\ UNCHANGED <<now, logVars, cstats, defaultTtl, cpend, mk, rlVars, pipeVars, traderVars>>

\* invalidateChain(chain) passes the chain as the pattern: the pattern
\* matches the keys that contain it
PatternMatches(chain, key) == \E m \in Modes : key = ScanKey(chain, m)

InvalidatePattern(chain) ==
  /\ cstore' = Remove(cstore, {k \in DOMAIN cstore : PatternMatches(chain, k)})
  /\ lastFetch' =
       Remove(lastFetch, {k \in DOMAIN lastFetch : PatternMatches(chain, k)})
  /\ op' = [name |-> "invalidatePattern", pattern |-> chain]
  /\ UNCHANGED <<now, logVars, cstats, defaultTtl, cpend, mk, rlVars, pipeVars, traderVars>>

\* a clear that also resets the counters
CacheClearResets ==
  /\ cstore' = << >>
  /\ cstats' = [hits |-> 0, misses |-> 0, creditsSaved |-> 0]
  /\ op' = [name |-> "cacheClear"]
  /\ UNCHANGED <<now, logVars, defaultTtl, cpend, lastFetch, mk, rlVars,
                 pipeVars, traderVars>>

CacheClear ==
  /\ cstore' = << >>
  /\ lastFetch' = << >>
  /\ op' = [name |-> "cacheClear"]
  /\ UNCHANGED <<now, logVars, cstats, defaultTtl, cpend, mk, rlVars, pipeVars, traderVars>>

Prune ==
  /\ cstore' = Remove(cstore, {k \in DOMAIN cstore : now > cstore[k].expiry})
  /\ op' = [name |-> "prune"]
  /\ UNCHANGED <<now, logVars, cstats, defaultTtl, cpend, lastFetch, mk, rlVars, pipeVars, traderVars>>

CacheTick ==
  /\ now < MaxCacheTime
  /\ now' = now + 1
  /\ op' = [name |-> "tick"]
  /\ UNCHANGED <<logVars, cacheVars, mk, rlVars, pipeVars, traderVars>>

(***************************************************************************)
(* RateLimiter                                                             *)
(***************************************************************************)
\* The token count is kept in thousandths of a token, so that the refill of
\* refillRate tokens per second is elapsed ms * refillRate, exactly.
Milli(n) == n * 1000

Min(a, b) == IF a < b THEN a ELSE b

\* Math.ceil(a / b) for a >= 0, b > 0
CeilDiv(a, b) == (a + b - 1) \div b

\* the limiter of the RateLimiter specification: new RateLimiter({maxTokens: 1,
\* refillRate: 500, minDelayMs: 2})
TestLimiter == [maxTokens |-> 1, refillRate |-> 500, minDelayMs |-> 2]

\* Date.now() when the limiter of the RateLimiter specification is built
RLEpoch == 100

RLCallers == {1, 2}
Costs == {1, 2}

RLInit(t, config) ==
  /\ rlconfig = config
  /\ tokens = Milli(config.maxTokens)
  /\ lastRefill = t
  /\ lastRequest = 0
  /\ rlstats = [totalRequests |-> 0, throttledRequests |-> 0,
                totalWaitTimeMs |-> 0]
  /\ rlpc = [p \in Callers |-> Idle]
  /\ rlast = [n |-> 0, granted |-> 0]

\* refill without the cap
RefilledUncapped(tok, last, t, config) == tok + (t - last) * config.refillRate

\* refill(): the token count after it
Refilled(tok, last, t, config) ==
  Min(Milli(config.maxTokens), tok + (t - last) * config.refillRate)

\* the sleep of one iteration of the wait loop
TokenDelay(tok, cost, config) ==
  CeilDiv(Milli(cost) - tok, config.refillRate) + 10

\* an acquire that deducts without waiting for tokens
AcquireLoopNoWait(p, cost, tok, waited) ==
  /\ rlstats' = [rlstats EXCEPT
       !.totalWaitTimeMs = @ + waited,
       !.totalRequests = IF rlpc[p] = Idle THEN @ + 1 ELSE @]
  /\ rlpc' = [rlpc EXCEPT ![p] = Idle]
  /\ tokens' = tok - Milli(cost)
  /\ lastRequest' = now
  /\ rlast' = [n |-> 1 - rlast.n, cost |-> cost, before |-> tok,
               granted |-> rlast.granted + Milli(cost)]

\* acquire from its wait loop on, entered with token count tok and the time
\* waited so far: either it sleeps for tokens or it deducts and returns
AcquireLoop(p, cost, tok, waited) ==
  IF tok < Milli(cost)
  THEN /\ rlstats' = [rlstats EXCEPT
            !.throttledRequests = @ + 1,
            !.totalRequests = IF rlpc[p] = Idle THEN @ + 1 ELSE @]
       /\ rlpc' = [rlpc EXCEPT ![p] =
            [st |-> "tokwait", cost |-> cost, waited |-> waited,
             delay |-> TokenDelay(tok, cost, rlconfig),
             wake |-> now + TokenDelay(tok, cost, rlconfig)]]
       /\ tokens' = tok
       /\ UNCHANGED <<lastRequest, rlast>>
  ELSE /\ rlstats' = [rlstats EXCEPT
            !.totalWaitTimeMs = @ + waited,
            !.totalRequests = IF rlpc[p] = Idle THEN @ + 1 ELSE @]
       /\ rlpc' = [rlpc EXCEPT ![p] = Idle]
       /\ tokens' = tok - Milli(cost)
       /\ lastRequest' = now
       /\ rlast' = [n |-> 1 - rlast.n, cost |-> cost, before |-> tok,
                    granted |-> rlast.granted + Milli(cost)]

\* acquire(cost) up to its first await or its return: the limiter's variables
AcquireCall(p, cost) ==
  /\ lastRefill' = now
  /\ UNCHANGED rlconfig
  /\ IF now - lastRequest < rlconfig.minDelayMs
     THEN /\ rlpc' = [rlpc EXCEPT ![p] =
               [st |-> "minwait", cost |-> cost,
                waited |-> rlconfig.minDelayMs - (now - lastRequest),
                wake |-> now + rlconfig.minDelayMs - (now - lastRequest)]]
          /\ tokens' = Refilled(tokens, lastRefill, now, rlconfig)
          /\ rlstats' = [rlstats EXCEPT !.totalRequests = @ + 1]
          /\ UNCHANGED <<lastRequest, rlast>>
     ELSE AcquireLoop(p, cost, Refilled(tokens, lastRefill, now, rlconfig), 0)

Acquire(p, cost) ==
  /\ rlpc[p] = Idle
  /\ rlstats.totalRequests < MaxRequests
  /\ AcquireCall(p, cost)
  /\ op' = [name |-> "acquire", caller |-> p, cost |-> cost]
  /\ UNCHANGED <<now, logVars, cacheVars, mk, pipeVars, traderVars>>

\* the minimum-delay sleep is over: the wait loop starts without a refill
WakeMinDelay(p) ==
  /\ rlpc[p].st = "minwait"
  /\ now >= rlpc[p].wake
  /\ AcquireLoop(p, rlpc[p].cost, tokens, rlpc[p].waited)
  /\ op' = [name |-> "wakeMinDelay", caller |-> p]
  /\ UNCHANGED <<now, logVars, cacheVars, mk, pipeVars, traderVars, rlconfig, lastRefill>>

\* a sleep of the wait loop is over: refill and test again
WakeTokens(p) ==
  /\ rlpc[p].st = "tokwait"
  /\ now >= rlpc[p].wake
  /\ lastRefill' = now
  /\ AcquireLoop(p, rlpc[p].cost,
                 Refilled(tokens, lastRefill, now, rlconfig),
                 rlpc[p].waited + rlpc[p].delay)
  /\ op' = [name |-> "wakeTokens", caller |-> p]
  /\ UNCHANGED <<now, logVars, cacheVars, mk, pipeVars, traderVars, rlconfig>>

CanAcquire(cost) ==
  /\ tokens' = Refilled(tokens, lastRefill, now, rlconfig)
  /\ lastRefill' = now
  /\ op' = [name |-> "canAcquire", cost |-> cost,
            result |-> (tokens' >= Milli(cost))]
  /\ UNCHANGED <<now, logVars, cacheVars, mk, pipeVars, traderVars, rlconfig, lastRequest,
                 rlstats, rlpc, rlast>>

RLGetStats ==
  /\ tokens' = Refilled(tokens, lastRefill, now, rlconfig)
  /\ lastRefill' = now
  /\ op' = [name |-> "getStats", currentTokens |-> tokens' \div 1000]
  /\ UNCHANGED <<now, logVars, cacheVars, mk, pipeVars, traderVars, rlconfig, lastRequest,
                 rlstats, rlpc, rlast>>

Reset ==
  /\ tokens' = Milli(rlconfig.maxTokens)
  /\ lastRefill' = now
  /\ lastRequest' = 0
  /\ op' = [name |-> "reset"]
  /\ UNCHANGED <<now, logVars, cacheVars, mk, pipeVars, traderVars, rlconfig, rlstats, rlpc, rlast>>

RLTick ==
  /\ now < RLEpoch + MaxRLTicks
  /\ now' = now + 1
  /\ op' = [name |-> "tick"]
  /\ UNCHANGED <<logVars, cacheVars, mk, rlVars, pipeVars, traderVars>>

(***************************************************************************)
(* The risk pipeline of NansenTrader.scan                                  *)
(***************************************************************************)
\* score, minScore and confidence are in tenths: a score of 2.0 is 20
Tenths(n) == n * 10

DEFAULT_RISK_CONFIG ==
  [minScore |-> 20, maxSignalsPerScan |-> 10, dedupeWindowMs |-> 3600000,
   minLiquidity |-> 10000, minHolders |-> 100, minSmartMoneyBuyers |-> 3,
   minNetflowUsd |-> 10000, minFreshWallets |-> 5]

\* `o.f && ...` for a numeric field that may be missing
Present(o, f) == Has(o, f) /\ Truthy(o[f])

\* a filter whose score test is the wrong way round
PassesRiskFiltersInverted(s, risk) == ~(s.score > risk.minScore)

\* the predicate of applyRiskFilters
PassesRiskFilters(s, risk) ==
  LET m == s.metrics IN
  /\ ~(s.score < risk.minScore)
  /\ ~(/\ Present(risk, "minSmartMoneyBuyers") /\ Present(m, "buyers")
       /\ m.buyers < risk.minSmartMoneyBuyers)
  /\ ~(/\ Present(risk, "minNetflowUsd") /\ Present(m, "netflow24h")
       /\ Abs(m.netflow24h) < risk.minNetflowUsd)
  /\ ~(/\ Present(risk, "minFreshWallets") /\ Present(m, "freshWallets")
       /\ m.freshWallets < risk.minFreshWallets)

applyRiskFilters(sigs, risk) ==
  SelectSeq(sigs, LAMBDA s : PassesRiskFilters(s, risk))

\* a hasRecentSignal whose window test is the wrong way round
hasRecentSignalStale(m, signal, withinMs, t) ==
  \E i \in 1..Len(m) :
    /\ m[i].token = signal.token
    /\ m[i].chain = signal.chain
    /\ m[i].type = signal.type
    /\ m[i].loggedAt < t - withinMs

\* SignalLog.hasRecentSignal on the store m at time t
hasRecentSignal(m, signal, withinMs, t) ==
  \E i \in 1..Len(m) :
    /\ m[i].token = signal.token
    /\ m[i].chain = signal.chain
    /\ m[i].type = signal.type
    /\ m[i].loggedAt > t - withinMs

DedupKey(signal) == signal.chain \o ":" \o signal.token

SeenHas(seen, key) == \E i \in 1..Len(seen) : DedupKey(seen[i]) = key
SeenIndex(seen, key) == CHOOSE i \in 1..Len(seen) : DedupKey(seen[i]) = key

\* one iteration of deduplicateSignals that keeps the later candidate
DedupStepKeepLast(seen, signal, windowMs, m, t) ==
  IF hasRecentSignal(m, signal, windowMs, t) THEN seen
  ELSE IF ~SeenHas(seen, DedupKey(signal)) THEN Append(seen, signal)
  ELSE [seen EXCEPT ![SeenIndex(seen, DedupKey(signal))] = signal]

\* one iteration of the loop of deduplicateSignals; seen is the Map's values
DedupStep(seen, signal, windowMs, m, t) ==
  IF hasRecentSignal(m, signal, windowMs, t) THEN seen
  ELSE IF ~SeenHas(seen, DedupKey(signal)) THEN Append(seen, signal)
  ELSE IF signal.score > seen[SeenIndex(seen, DedupKey(signal))].score
       THEN [seen EXCEPT ![SeenIndex(seen, DedupKey(signal))] = signal]
       ELSE seen

RECURSIVE DedupLoop(_, _, _, _, _)
DedupLoop(seen, rest, windowMs, m, t) ==
  IF rest = << >> THEN seen
  ELSE DedupLoop(DedupStep(seen, Head(rest), windowMs, m, t),
                 Tail(rest), windowMs, m, t)

deduplicateSignals(sigs, windowMs, m, t) == DedupLoop(<< >>, sigs, windowMs, m, t)

\* the risk score and factors scoreSignals computes: <<riskScore, riskFactors>>
RiskOf(signal) ==
  LET m == signal.metrics
      base == IF signal.score > Tenths(5) THEN 2
              ELSE IF signal.score > Tenths(3) THEN 1 ELSE 0
      ratio == Present(m, "buyers") /\ Present(m, "sellers")
                 /\ m.buyers > m.sellers * 2
      flow == Present(m, "netflow24h") /\ m.netflow24h > 100000
      sell == Present(m, "sellers") /\ Present(m, "buyers")
                 /\ m.sellers > m.buyers
  IN <<base + (IF ratio THEN 1 ELSE 0) + (IF flow THEN 1 ELSE 0)
            - (IF sell THEN 1 ELSE 0),
       (IF ratio THEN <<"Strong buyer/seller ratio">> ELSE << >>)
         \o (IF flow THEN <<"High netflow">> ELSE << >>)
         \o (IF sell THEN <<"More sellers than buyers">> ELSE << >>)>>

\* a mapping whose thresholds are exclusive
RecommendationExclusive(riskScore) ==
  IF riskScore > 3 THEN "strong_buy"
  ELSE IF riskScore > 1 THEN "buy"
  ELSE IF riskScore > 0 THEN "watch" ELSE "avoid"

Recommendation(riskScore) ==
  IF riskScore >= 3 THEN "strong_buy"
  ELSE IF riskScore >= 1 THEN "buy"
  ELSE IF riskScore >= 0 THEN "watch" ELSE "avoid"

Confidence(riskScore) ==
  IF riskScore >= 3 THEN 8
  ELSE IF riskScore >= 1 THEN 6
  ELSE IF riskScore >= 0 THEN 4 ELSE 3

\* the TradingSignal scoreSignals builds at time t
ScoreOne(signal, t) ==
  LET r == RiskOf(signal)
      rec == Recommendation(r[1])
      scored == Merge(signal,
        [id |-> generateId(signal), loggedAt |-> t, acted |-> FALSE,
         riskScore |-> r[1], riskFactors |-> r[2],
         recommendation |-> rec, confidence |-> Confidence(r[1])])
  IN IF rec \in {"strong_buy", "buy"}
     THEN Merge(scored, [suggestedAction |->
            [action |-> "buy",
             urgency |-> IF rec = "strong_buy" THEN "high" ELSE "medium",
             reasoning |-> IF r[2] = << >> THEN "Positive signal detected"
                           ELSE Join(r[2], "; "),
             targetChain |-> signal.chain,
             targetToken |-> signal.token,
             positionSizeHint |->
               IF rec = "strong_buy" THEN "medium" ELSE "small"]])
     ELSE scored

\* a comparator that looks at the risk score only
RankCompareRiskOnly(a, b) == b.riskScore - a.riskScore

\* the comparator of scoreSignals: negative puts a first
RankCompare(a, b) ==
  IF b.riskScore - a.riskScore # 0 THEN b.riskScore - a.riskScore
  ELSE b.score - a.score

\* Array.prototype.sort is stable: x goes after the elements it does not precede
RECURSIVE InsertRanked(_, _)
InsertRanked(x, sorted) ==
  IF sorted = << >> THEN <<x>>
  ELSE IF RankCompare(x, Head(sorted)) < 0 THEN <<x>> \o sorted
       ELSE <<Head(sorted)>> \o InsertRanked(x, Tail(sorted))

RECURSIVE SortRanked(_)
SortRanked(seq) ==
  IF seq = << >> THEN << >>
  ELSE InsertRanked(seq[Len(seq)], SortRanked(SubSeq(seq, 1, Len(seq) - 1)))

scoreSignals(sigs, t) == SortRanked([i \in 1..Len(sigs) |-> ScoreOne(sigs[i], t)])

\* Array.prototype.slice(0, limit) for limit >= 0
Slice(seq, limit) == SubSeq(seq, 1, Min(limit, Len(seq)))

\* scan from applyRiskFilters to the slice, on the store m at time t
Pipeline(cands, risk, limit, m, t) ==
  LET filtered == applyRiskFilters(cands, risk)
      deduped == deduplicateSignals(filtered, risk.dedupeWindowMs, m, t)
      scored == scoreSignals(deduped, t)
  IN [filtered |-> filtered, deduped |-> deduped, scored |-> scored,
      top |-> Slice(scored, limit)]

\* the candidates of the pipeline specification
PCand(chain, token, type, score, metrics) ==
  [chain |-> chain, token |-> token, type |-> type, score |-> score,
   metrics |-> metrics, timestamp |-> 1]

PipeCands ==
  { PCand("base", "X", "accumulation", 60,
          [netflow24h |-> 150000, buyers |-> 10, sellers |-> 2]),
    PCand("base", "X", "distribution", 35,
          [netflow24h |-> -20000, buyers |-> 5, sellers |-> 0]),
    PCand("base", "X", "accumulation", 35, [netflow24h |-> 5000]),
    PCand("base", "Y", "accumulation", 19, [buyers |-> 3, sellers |-> 5]),
    PCand("ethereum", "X", "accumulation", 25, [netflow24h |-> 50000]),
    PCand("base", "Y", "distribution", 45,
          [netflow24h |-> 0, buyers |-> 0, sellers |-> 4, freshWallets |-> 0]) }

PipeRisks ==
  { Merge(DEFAULT_RISK_CONFIG, [minScore |-> ms, dedupeWindowMs |-> 5])
      : ms \in {0, 20, 40} }

\* the stores of the pipeline specification: empty, or base:X:accumulation
\* logged 2 ms or 7 ms before the pipeline runs
PipeNow == 10
PipeStores ==
  {<< >>} \cup
  {<<NewEntry(PCand("base", "X", "accumulation", 60, << >>), at)>> : at \in {3, 8}}

PipeIdle ==
  /\ pin = [cands |-> << >>, risk |-> DEFAULT_RISK_CONFIG, limit |-> 10]
  /\ pout = <<"idle">>

RunPipeline ==
  /\ pout = << >>
  /\ pout' = <<Pipeline(pin.cands, pin.risk, pin.limit, signals, now)>>
  /\ op' = [name |-> "pipeline"]
  /\ UNCHANGED <<now, logVars, cacheVars, mk, rlVars, pin, traderVars>>

(***************************************************************************)
(* NansenTrader: scan                                                      *)
(***************************************************************************)
CACHE_TTL == [SMART_MONEY |-> 60000, MCP_ANALYSIS |-> 600000]

RATE_LIMIT_PRESETS ==
  [conservative |-> [maxTokens |-> 5, refillRate |-> 1, minDelayMs |-> 500],
   standard |-> [maxTokens |-> 10, refillRate |-> 2, minDelayMs |-> 200],
   aggressive |-> [maxTokens |-> 20, refillRate |-> 5, minDelayMs |-> 50],
   burst |-> [maxTokens |-> 30, refillRate |-> 3, minDelayMs |-> 100]]

\* Date.now() when the trader is constructed
TraderEpoch == 1000

Scans == 1..MaxScans

\* a scan call that has not been made yet, and one that is over
ScanIdle == [st |-> "idle"]
ScanDone == [st |-> "done"]
MonOff == [st |-> "off"]

\* new NansenTrader(config): the fields scan and monitor use
TraderNew(config) ==
  /\ CacheNew(IF Has(config, "cacheTtlMs") /\ Truthy(config.cacheTtlMs)
              THEN config.cacheTtlMs ELSE 60000)
  /\ RLInit(now, RATE_LIMIT_PRESETS[IF Has(config, "rateLimitPreset")
                                    THEN config.rateLimitPreset ELSE "standard"])
  /\ signals = << >> /\ disk = << >> /\ ret = << >>
  /\ autoSave = (~Has(config, "enableSignalLog") \/ config.enableSignalLog)
  /\ riskConfig = Merge(DEFAULT_RISK_CONFIG,
                        IF Has(config, "riskConfig") THEN config.riskConfig
                        ELSE << >>)
  /\ enableRateLimit = (~Has(config, "enableRateLimit") \/ config.enableRateLimit)
  /\ sc = [s \in Scans |-> ScanIdle]
  /\ mon = MonOff
  /\ delivered = << >>

\* the trader of the specifications that do not use one
TraderIdle ==
  /\ riskConfig = DEFAULT_RISK_CONFIG
  /\ enableRateLimit = TRUE
  /\ sc = [s \in Scans |-> ScanIdle]
  /\ mon = MonOff
  /\ delivered = << >>

Range(seq) == {seq[i] : i \in 1..Len(seq)}

\* `risk.f?.length` for an optional array field
NonEmptyList(o, f) == Has(o, f) /\ Len(o[f]) # 0

\* a filter that applies the allow-list and forgets the deny-list
filterChainsAllowOnly(chains, risk) ==
  IF NonEmptyList(risk, "allowedChains")
  THEN SelectSeq(chains, LAMBDA c : c \in Range(risk.allowedChains))
  ELSE chains

filterChains(chains, risk) ==
  LET allowed == IF NonEmptyList(risk, "allowedChains")
                 THEN SelectSeq(chains,
                        LAMBDA c : c \in Range(risk.allowedChains))
                 ELSE chains
  IN  IF NonEmptyList(risk, "excludedChains")
      THEN SelectSeq(allowed, LAMBDA c : c \notin Range(risk.excludedChains))
      ELSE allowed

\* the (chain, mode) pairs in the order of scan's nested loops
Pairs(chains, modes) ==
  [i \in 1..(Len(chains) * Len(modes)) |->
     <<chains[((i - 1) \div Len(modes)) + 1], modes[((i - 1) % Len(modes)) + 1]>>]

\* chain + token + type of a signal
SignalKey(signal) == signal.chain \o ":" \o signal.token \o ":" \o signal.type

\* the keys of the stored signals logged less than windowMs before t
RecentKeys(m, windowMs, t) ==
  {SignalKey(m[i]) : i \in {j \in 1..Len(m) : t - m[j].loggedAt < windowMs}}

\* the (token, score) lists the external source yields for a pair
Yields ==
  { << <<"X", 60>> >>,
    << <<"X", 60>>, <<"Y", 35>> >> }

\* scanOpportunities({chain, mode}) resolving at time t with the tokens of y
SourceSignals(chain, mode, y, t) ==
  [i \in 1..Len(y) |->
     [type |-> mode, token |-> y[i][1], chain |-> chain, score |-> y[i][2],
      metrics |-> [netflow24h |-> 150000], timestamp |-> t]]

McpKey(signal) ==
  makeKey("mcp_analyze", << <<"token", Str(signal.token)>>,
                            <<"chain", Str(signal.chain)>> >>)

\* scan(options) up to the head of its loop, run by scan call s; tick is
\* << >> for a direct call and <<the time of the tick>> for a monitor tick.
\* chains keeps the chains asked for and touched collects the chains of the
\* pairs the loop has started
ScanCall(s, options, tick) ==
  LET effectiveRisk == Merge(riskConfig,
                             IF Has(options, "riskOverride")
                             THEN options.riskOverride ELSE << >>)
      chains == IF Has(options, "chains") THEN options.chains
                ELSE <<"ethereum", "base", "arbitrum">>
      modes == IF Has(options, "modes") THEN options.modes
               ELSE <<"accumulation">>
  IN sc' = [sc EXCEPT ![s] =
       [st |-> "loop",
        risk |-> effectiveRisk,
        limit |-> IF Has(options, "limit") THEN options.limit
                  ELSE riskConfig.maxSignalsPerScan,
        analyze |-> Has(options, "analyze") /\ options.analyze,
        pairs |-> Pairs(filterChains(chains, effectiveRisk), modes),
        chains |-> chains, touched |-> {},
        all |-> << >>, top |-> << >>, ei |-> 1, di |-> 1,
        tick |-> tick,
        startedAt |-> now,
        recentAtStart |-> RecentKeys(signals, effectiveRisk.dedupeWindowMs, now),
        recentAtDedup |-> {}]]

ScanStart(s, options) ==
  /\ sc[s] = ScanIdle
  /\ \A r \in Scans : r < s => sc[r] # ScanIdle
  /\ ScanCall(s, options, << >>)
  /\ op' = [name |-> "scan", scan |-> s]
  /\ UNCHANGED <<now, logVars, cacheVars, mk, rlVars, pipeVars,
                 riskConfig, enableRateLimit, mon, delivered>>

\* a scan that returns its signals without logging them
ScanFinishNoLog(s, top) ==
  /\ UNCHANGED logVars
  /\ sc' = [sc EXCEPT ![s] =
       IF sc[s].tick = << >> THEN ScanDone
       ELSE [sc[s] EXCEPT !.st = "deliver", !.top = top, !.di = 1]]
  /\ op' = [name |-> "scanReturned", scan |-> s, signals |-> top,
            cands |-> sc[s].all, risk |-> sc[s].risk, limit |-> sc[s].limit,
            chains |-> sc[s].chains, touched |-> sc[s].touched,
            tick |-> sc[s].tick, startedAt |-> sc[s].startedAt,
            recentAtStart |-> sc[s].recentAtStart,
            recentAtDedup |-> IF sc[s].st = "loop"
                              THEN RecentKeys(signals, sc[s].risk.dedupeWindowMs, now)
                              ELSE sc[s].recentAtDedup]

\* the loop `for (signal of topSignals) signalLog.log(signal)` and the return
\* of scan: a direct call is over, a monitor tick goes on to its callbacks
ScanFinish(s, top) ==
  LET r == LogAll(signals, top, now) IN
  /\ signals' = r[1]
  /\ ret' = IF top = << >> THEN ret ELSE <<r[2][Len(top)]>>
  /\ disk' = IF autoSave /\ r[1] # signals THEN Save(r[1]) ELSE disk
  /\ UNCHANGED autoSave
  /\ sc' = [sc EXCEPT ![s] =
       IF sc[s].tick = << >> THEN ScanDone
       ELSE [sc[s] EXCEPT !.st = "deliver", !.top = top, !.di = 1]]
  /\ op' = [name |-> "scanReturned", scan |-> s, signals |-> top,
            cands |-> sc[s].all, risk |-> sc[s].risk, limit |-> sc[s].limit,
            chains |-> sc[s].chains, touched |-> sc[s].touched,
            tick |-> sc[s].tick, startedAt |-> sc[s].startedAt,
            recentAtStart |-> sc[s].recentAtStart,
            recentAtDedup |-> IF sc[s].st = "loop"
                              THEN RecentKeys(signals, sc[s].risk.dedupeWindowMs, now)
                              ELSE sc[s].recentAtDedup]

\* the head of scan's loop: the next pair starts with the limiter, or, after
\* the last pair, the pipeline runs and scan logs and returns or goes on to
\* enrichWithMcp
ScanLoop(s) ==
  /\ sc[s].st = "loop"
  /\ IF sc[s].pairs # << >>
     THEN /\ IF enableRateLimit
             THEN /\ AcquireCall(s, 1)
                  /\ sc' = [sc EXCEPT ![s].st = "acquiring",
                                      ![s].touched = @ \cup {Head(sc[s].pairs)[1]}]
             ELSE /\ UNCHANGED rlVars
                  /\ sc' = [sc EXCEPT ![s].st = "lookup",
                                      ![s].touched = @ \cup {Head(sc[s].pairs)[1]}]
          /\ op' = [name |-> "scanPair", scan |-> s, pair |-> Head(sc[s].pairs)]
          /\ UNCHANGED logVars
     ELSE LET top == Pipeline(sc[s].all, sc[s].risk, sc[s].limit,
                              signals, now).top
          IN  /\ UNCHANGED rlVars
              /\ IF sc[s].analyze /\ Len(top) > 0
                 THEN /\ sc' = [sc EXCEPT ![s].st = "enrich", ![s].top = top,
                                  ![s].ei = 1,
                                  ![s].recentAtDedup =
                                     RecentKeys(signals,
                                                sc[s].risk.dedupeWindowMs, now)]
                      /\ op' = [name |-> "scanRanked", scan |-> s]
                      /\ UNCHANGED logVars
                 ELSE ScanFinish(s, top)
  /\ UNCHANGED <<now, cacheVars, mk, pipeVars,
                 riskConfig, enableRateLimit, mon, delivered>>

\* a lookup that does not wait for acquire to return
ScanLookupEarly(s) ==
  /\ sc[s].st \in {"lookup", "acquiring"}
  /\ LET pair == Head(sc[s].pairs)
         key == ScanKey(pair[1], pair[2])
     IN /\ GetOrFetchCall(s, key, <<CACHE_TTL.SMART_MONEY>>, 1)
        /\ sc' = [sc EXCEPT ![s] =
             IF IsHit(key)
             THEN [sc[s] EXCEPT !.st = "loop", !.pairs = Tail(@),
                                !.all = @ \o cstore[key].data]
             ELSE [sc[s] EXCEPT !.st = "fetching"]]
        /\ op' = [name |-> "scanLookup", scan |-> s, key |-> key,
                  hit |-> IsHit(key)]
  /\ UNCHANGED <<now, logVars, mk, rlVars, pipeVars,
                 riskConfig, enableRateLimit, mon, delivered>>

\* acquire has returned (or was not called): getOrFetch up to its await
ScanLookup(s) ==
  /\ \/ sc[s].st = "lookup"
     \/ sc[s].st = "acquiring" /\ rlpc[s] = Idle
  /\ LET pair == Head(sc[s].pairs)
         key == ScanKey(pair[1], pair[2])
     IN /\ GetOrFetchCall(s, key, <<CACHE_TTL.SMART_MONEY>>, 1)
        /\ sc' = [sc EXCEPT ![s] =
             IF IsHit(key)
             THEN [sc[s] EXCEPT !.st = "loop", !.pairs = Tail(@),
                                !.all = @ \o cstore[key].data]
             ELSE [sc[s] EXCEPT !.st = "fetching"]]
        /\ op' = [name |-> "scanLookup", scan |-> s, key |-> key,
                  hit |-> IsHit(key)]
  /\ UNCHANGED <<now, logVars, mk, rlVars, pipeVars,
                 riskConfig, enableRateLimit, mon, delivered>>

\* scanOpportunities resolves with the tokens of y: getOrFetch stores the
\* signals and scan pushes them
ScanFetched(s, y) ==
  /\ sc[s].st = "fetching"
  /\ LET pair == Head(sc[s].pairs)
         data == SourceSignals(pair[1], pair[2], y, now)
     IN /\ FetchResolveCall(s, data)
        /\ sc' = [sc EXCEPT ![s].st = "loop", ![s].pairs = Tail(@),
                            ![s].all = @ \o data]
        /\ op' = [name |-> "scanFetched", scan |-> s, data |-> data]
  /\ UNCHANGED <<now, logVars, mk, rlVars, pipeVars,
                 riskConfig, enableRateLimit, mon, delivered>>

\* scanOpportunities rejects: getOrFetch throws, and so does scan, which has
\* no handler; the handler of a monitor tick ends the tick
ScanFetchFailed(s) ==
  /\ sc[s].st = "fetching"
  /\ cpend' = [cpend EXCEPT ![s] = Idle]
  /\ sc' = [sc EXCEPT ![s] = ScanDone]
  /\ op' = [name |-> "scanFetchFailed", scan |-> s,
            tick |-> sc[s].tick, pushed |-> sc[s].all]
  /\ UNCHANGED <<now, logVars, cstore, cstats, defaultTtl, lastFetch, mk,
                 rlVars, pipeVars, riskConfig, enableRateLimit, mon, delivered>>

\* what analyzeToken resolves with
McpAnalyses == {[summary |-> "analysis"]}

\* signal.mcpAnalysis = value, for the signal enrichWithMcp is at
Enriched(s, value) ==
  [sc[s] EXCEPT !.st = "enrich", !.ei = @ + 1,
                !.top = [@ EXCEPT ![sc[s].ei] =
                           Merge(@, [mcpAnalysis |-> value])]]

\* the head of enrichWithMcp's loop over topSignals.slice(0, 3): the next
\* signal starts with the limiter; after the last one scan logs and returns
ScanEnrich(s) ==
  /\ sc[s].st = "enrich"
  /\ IF sc[s].ei <= Min(3, Len(sc[s].top))
     THEN /\ IF enableRateLimit
             THEN /\ AcquireCall(s, 2)
                  /\ sc' = [sc EXCEPT ![s].st = "eacquiring"]
             ELSE /\ UNCHANGED rlVars
                  /\ sc' = [sc EXCEPT ![s].st = "elookup"]
          /\ op' = [name |-> "enrich", scan |-> s]
          /\ UNCHANGED logVars
     ELSE /\ UNCHANGED rlVars
          /\ ScanFinish(s, sc[s].top)
  /\ UNCHANGED <<now, cacheVars, mk, pipeVars,
                 riskConfig, enableRateLimit, mon, delivered>>

ScanEnrichLookup(s) ==
  /\ \/ sc[s].st = "elookup"
     \/ sc[s].st = "eacquiring" /\ rlpc[s] = Idle
  /\ LET key == McpKey(sc[s].top[sc[s].ei]) IN
        /\ GetOrFetchCall(s, key, <<CACHE_TTL.MCP_ANALYSIS>>, 5)
        /\ sc' = [sc EXCEPT ![s] =
             IF IsHit(key) THEN Enriched(s, cstore[key].data)
             ELSE [sc[s] EXCEPT !.st = "efetching"]]
        /\ op' = [name |-> "enrichLookup", scan |-> s, key |-> key,
                  hit |-> IsHit(key)]
  /\ UNCHANGED <<now, logVars, mk, rlVars, pipeVars,
                 riskConfig, enableRateLimit, mon, delivered>>

ScanEnrichFetched(s, analysis) ==
  /\ sc[s].st = "efetching"
  /\ FetchResolveCall(s, analysis)
  /\ sc' = [sc EXCEPT ![s] = Enriched(s, analysis)]
  /\ op' = [name |-> "enrichFetched", scan |-> s]
  /\ UNCHANGED <<now, logVars, mk, rlVars, pipeVars,
                 riskConfig, enableRateLimit, mon, delivered>>

\* an enrichment without a handler: the rejection ends the scan
ScanEnrichFailedAborts(s) ==
  /\ sc[s].st = "efetching"
  /\ cpend' = [cpend EXCEPT ![s] = Idle]
  /\ sc' = [sc EXCEPT ![s] = ScanDone]
  /\ op' = [name |-> "enrichFailed", scan |-> s]
  /\ UNCHANGED <<now, logVars, cstore, cstats, defaultTtl, lastFetch, mk,
                 rlVars, pipeVars, riskConfig, enableRateLimit, mon, delivered>>

\* analyzeToken rejects: the handler of enrichWithMcp stores the message
ScanEnrichFailed(s) ==
  /\ sc[s].st = "efetching"
  /\ cpend' = [cpend EXCEPT ![s] = Idle]
  /\ sc' = [sc EXCEPT ![s] = Enriched(s, [error |-> "message"])]
  /\ op' = [name |-> "enrichFailed", scan |-> s]
  /\ UNCHANGED <<now, logVars, cstore, cstats, defaultTtl, lastFetch, mk,
                 rlVars, pipeVars, riskConfig, enableRateLimit, mon, delivered>>

TraderTick ==
  /\ now < TraderEpoch + MaxTraderTime
  /\ now' = now + 1
  /\ op' = [name |-> "tick"]
  /\ UNCHANGED <<logVars, cacheVars, mk, rlVars, pipeVars, traderVars>>

(***************************************************************************)
(* NansenTrader: monitor                                                   *)
(***************************************************************************)
\* monitor(options, onSignal): runScan() is called at once and setInterval
\* arms the timer; seen maps a key to the time its setTimeout is due
Monitor(options) ==
  /\ mon = MonOff
  /\ \A s \in Scans : sc[s] = ScanIdle
  /\ ScanCall(1, options, <<now>>)
  /\ mon' = [st |-> "on", options |-> options,
             intervalMs |-> IF Has(options, "intervalMs")
                            THEN options.intervalMs ELSE 60000,
             due |-> now + (IF Has(options, "intervalMs")
                            THEN options.intervalMs ELSE 60000),
             seen |-> << >>]
  /\ op' = [name |-> "monitor"]
  /\ UNCHANGED <<now, logVars, cacheVars, mk, rlVars, pipeVars,
                 riskConfig, enableRateLimit, delivered>>

\* an interval timer that clearInterval does not stop
MonitorTickUncleared(s) ==
  /\ mon.st \in {"on", "cancelled"}
  /\ now >= mon.due
  /\ sc[s] = ScanIdle
  /\ \A r \in Scans : r < s => sc[r] # ScanIdle
  /\ ScanCall(s, mon.options, <<now>>)
  /\ mon' = [mon EXCEPT !.due = now + mon.intervalMs]
  /\ op' = [name |-> "monitorTick", scan |-> s]
  /\ UNCHANGED <<now, logVars, cacheVars, mk, rlVars, pipeVars,
                 riskConfig, enableRateLimit, delivered>>

\* the interval timer fires: runScan starts another scan, whether or not
\* the scan of an earlier tick has returned
MonitorTick(s) ==
  /\ mon.st = "on"
  /\ now >= mon.due
  /\ sc[s] = ScanIdle
  /\ \A r \in Scans : r < s => sc[r] # ScanIdle
  /\ ScanCall(s, mon.options, <<now>>)
  /\ mon' = [mon EXCEPT !.due = now + mon.intervalMs]
  /\ op' = [name |-> "monitorTick", scan |-> s]
  /\ UNCHANGED <<now, logVars, cacheVars, mk, rlVars, pipeVars,
                 riskConfig, enableRateLimit, delivered>>

\* a cancellation that also drops the ticks in flight
MonitorCancelAborts ==
  /\ mon.st = "on"
  /\ mon' = [mon EXCEPT !.st = "cancelled"]
  /\ sc' = [s \in Scans |-> IF sc[s] = ScanIdle THEN ScanIdle ELSE ScanDone]
  /\ op' = [name |-> "cancel"]
  /\ UNCHANGED <<now, logVars, cacheVars, mk, rlVars, pipeVars,
                 riskConfig, enableRateLimit, delivered>>

\* the function monitor returns: clearInterval
MonitorCancel ==
  /\ mon.st = "on"
  /\ mon' = [mon EXCEPT !.st = "cancelled"]
  /\ op' = [name |-> "cancel"]
  /\ UNCHANGED <<now, logVars, cacheVars, mk, rlVars, pipeVars,
                 riskConfig, enableRateLimit, sc, delivered>>

\* a loop that does not look at seen
UnseenAny(s) == sc[s].di..Len(sc[s].top)

\* the indexes from di on of the signals of tick s whose key is not in seen
Unseen(s) ==
  {i \in sc[s].di..Len(sc[s].top) : ~Has(mon.seen, SignalKey(sc[s].top[i]))}

Least(S) == CHOOSE i \in S : \A j \in S : i <= j

\* runScan after its scan has returned, or after an onSignal has: the loop
\* passes the signals whose key is in seen and calls onSignal for the next
\* one, which returns (ok) or throws into the handler that ends the tick
ScanDeliver(s, ok) ==
  /\ sc[s].st = "deliver"
  /\ IF Unseen(s) = {}
     THEN /\ ok
          /\ sc' = [sc EXCEPT ![s] = ScanDone]
          /\ op' = [name |-> "tickDone", scan |-> s, tick |-> sc[s].tick[1],
                    passed |-> {SignalKey(sc[s].top[i]) :
                                  i \in sc[s].di..Len(sc[s].top)}]
          /\ UNCHANGED <<mon, delivered>>
     ELSE LET i == Least(Unseen(s))
              key == SignalKey(sc[s].top[i])
          IN  /\ mon' = [mon EXCEPT !.seen =
                   Merge(@, [k \in {key} |-> now + riskConfig.dedupeWindowMs])]
              /\ delivered' = Append(delivered,
                   [key |-> key, at |-> now, tick |-> sc[s].tick[1]])
              /\ sc' = [sc EXCEPT ![s] =
                   IF ok THEN [sc[s] EXCEPT !.di = i + 1] ELSE ScanDone]
              /\ op' = [name |-> "onSignal", scan |-> s, ok |-> ok,
                        tick |-> sc[s].tick[1],
                        passed |-> {SignalKey(sc[s].top[j]) : j \in sc[s].di..(i - 1)}]
  /\ UNCHANGED <<now, logVars, cacheVars, mk, rlVars, pipeVars,
                 riskConfig, enableRateLimit>>

\* the setTimeout of a seen key fires
SeenExpire(key) ==
  /\ mon # MonOff
  /\ Has(mon.seen, key)
  /\ now >= mon.seen[key]
  /\ mon' = [mon EXCEPT !.seen = Remove(@, {key})]
  /\ op' = [name |-> "seenExpired", key |-> key]
  /\ UNCHANGED <<now, logVars, cacheVars, mk, rlVars, pipeVars,
                 riskConfig, enableRateLimit, sc, delivered>>

LogInit ==
  /\ signals = <<>>
  /\ disk = <<>>
  /\ ret = <<>>
  /\ autoSave \in BOOLEAN

InitLog ==
  /\ now = 0
  /\ op = [name |-> "init"]
  /\ LogInit
  /\ CacheInit
  /\ mk = NoKey
  /\ RLInit(0, TestLimiter)
  /\ PipeIdle
  /\ TraderIdle

NextLog ==
  \/ \E c \in LogCands : Log(c)
  \/ \E b \in Batches : LogBatch(b)
  \/ \E id \in LogIds, a \in MarkArgs : MarkActed(id, a[1], a[2])
  \/ \E id \in LogIds, o \in PartialOutcomes : RecordOutcome(id, o)
  \/ Clear
  \/ LogTick

SpecLog == InitLog /\ [][NextLog]_vars

InitCache == InitLog /\ autoSave

NextCache ==
  \/ \E k \in CacheKeys : Get(k)
  \/ \E k \in CacheKeys : Set(k, "v2", << >>)
  \/ \E k \in CacheKeys, t \in TtlArgs, c \in CreditArgs : GetOrFetch(1, k, t, c)
  \/ FetchResolve(1, "v1")
  \/ FetchReject(1)
  \/ \E k \in CacheKeys : Invalidate(k)
  \/ \E c \in Chains : InvalidatePattern(c)
  \/ CacheClear
  \/ Prune
  \/ CacheTick

SpecCache == InitCache /\ [][NextCache]_vars

\* getOrFetch calls of several callers, whose fetches overlap
NextOverlap ==
  \/ \E p \in Callers, k \in CacheKeys, t \in TtlArgs :
       GetOrFetch(p, k, t, 1)
  \/ \E p \in Callers, v \in CacheValues : FetchResolve(p, v)
  \/ \E p \in Callers : FetchReject(p)
  \/ CacheTick

SpecOverlap == InitCache /\ [][NextOverlap]_vars

InitKey ==
  /\ now = 0
  /\ op = [name |-> "init"]
  /\ LogInit /\ autoSave
  /\ CacheInit
  /\ RLInit(0, TestLimiter)
  /\ PipeIdle
  /\ mk \in [prefix : KeyPrefixes, params : KeyParams, key : {<< >>}]
  /\ TraderIdle

NextKey == MakeKeyCall

InitRL ==
  /\ now = RLEpoch
  /\ op = [name |-> "init"]
  /\ LogInit /\ autoSave
  /\ CacheInit
  /\ mk = NoKey
  /\ RLInit(RLEpoch, TestLimiter)
  /\ PipeIdle
  /\ TraderIdle

NextRL ==
  \/ \E p \in RLCallers, c \in Costs : Acquire(p, c)
  \/ \E p \in RLCallers : WakeMinDelay(p)
  \/ \E p \in RLCallers : WakeTokens(p)
  \/ \E c \in Costs : CanAcquire(c)
  \/ RLGetStats
  \/ Reset
  \/ RLTick

SpecRL == InitRL /\ [][NextRL]_vars

\* a limiter shared by callers that call acquire while other calls are
\* asleep: new RateLimiter({maxTokens: 3, refillRate: 500, minDelayMs: 2})
SharedLimiter == [maxTokens |-> 3, refillRate |-> 500, minDelayMs |-> 2]

AcquireShared(p, cost) ==
  /\ rlpc[p] = Idle
  /\ rlstats.totalRequests <= MaxRequests
  /\ AcquireCall(p, cost)
  /\ op' = [name |-> "acquire", caller |-> p, cost |-> cost]
  /\ UNCHANGED <<now, logVars, cacheVars, mk, pipeVars, traderVars>>

InitShared ==
  /\ now = RLEpoch
  /\ op = [name |-> "init"]
  /\ LogInit /\ autoSave
  /\ CacheInit
  /\ mk = NoKey
  /\ RLInit(RLEpoch, SharedLimiter)
  /\ PipeIdle
  /\ TraderIdle

NextShared ==
  \/ \E p \in RLCallers, c \in Costs : AcquireShared(p, c)
  \/ \E p \in RLCallers : WakeMinDelay(p)
  \/ \E p \in RLCallers : WakeTokens(p)
  \/ RLTick

SpecShared == InitShared /\ [][NextShared]_vars

\* one caller on the limiter of the RateLimiter specification
NextSolo ==
  \/ \E c \in Costs : Acquire(1, c)
  \/ WakeMinDelay(1)
  \/ WakeTokens(1)
  \/ RLTick

SpecSolo == InitRL /\ [][NextSolo]_vars

InitPipe ==
  /\ now = PipeNow
  /\ op = [name |-> "init"]
  /\ signals \in PipeStores
  /\ disk = signals /\ ret = << >> /\ autoSave = TRUE
  /\ CacheInit
  /\ mk = NoKey
  /\ RLInit(0, TestLimiter)
  /\ pin \in [cands : UNION {[1..n -> PipeCands] : n \in 0..MaxCands},
              risk : PipeRisks, limit : {1, 10}]
  /\ pout = << >>
  /\ TraderIdle

NextPipe == RunPipeline

SpecPipe == InitPipe /\ [][NextPipe]_vars

\* a second scan over the candidates and the configuration of the first
RunAgain ==
  /\ Len(pout) = 1
  /\ op.name \in {"pipeline", "tick"}
  /\ pout' = Append(pout, Pipeline(pin.cands, pin.risk, pin.limit, signals, now))
  /\ op' = [name |-> "pipelineAgain"]
  /\ UNCHANGED <<now, logVars, cacheVars, mk, rlVars, pin, traderVars>>

\* two scans of the same input over an empty store, so that the dedup
\* predicate is the same (false) in both
InitTwice ==
  /\ now = 0
  /\ op = [name |-> "init"]
  /\ signals = << >> /\ disk = << >> /\ ret = << >> /\ autoSave = TRUE
  /\ CacheInit
  /\ mk = NoKey
  /\ RLInit(0, TestLimiter)
  /\ pin \in [cands : UNION {[1..n -> PipeCands] : n \in 0..MaxCands},
              risk : PipeRisks, limit : {1, 10}]
  /\ pout = << >>
  /\ TraderIdle

NextTwice == RunPipeline \/ RunAgain \/ LogTick

SpecTwice == InitTwice /\ [][NextTwice]_vars

SpecKey == InitKey /\ [][NextKey]_vars

\* the configurations and options of the trader specifications
TraderConfigs ==
  {[enableRateLimit |-> FALSE, riskConfig |-> [dedupeWindowMs |-> 2]]}

ScanOptionSets ==
  {[chains |-> <<"base">>],
   [chains |-> <<"base", "ethereum">>, modes |-> <<"accumulation">>],
   [chains |-> <<"base">>, limit |-> 1],
   [chains |-> <<"base">>, riskOverride |-> [maxSignalsPerScan |-> 1]],
   [chains |-> <<"base">>, limit |-> 2,
    riskOverride |-> [maxSignalsPerScan |-> 1]]}

AnalyzeOptionSets == {[chains |-> <<"base">>, analyze |-> TRUE]}

MonitorOptionSets ==
  {[chains |-> <<"base">>, modes |-> <<"accumulation">>, intervalMs |-> 1]}

InitScan ==
  /\ now = TraderEpoch
  /\ op = [name |-> "init"]
  /\ \E config \in TraderConfigs : TraderNew(config)
  /\ mk = NoKey
  /\ PipeIdle

\* no scan call is in flight
NoScanInFlight == \A s \in Scans : sc[s] \in {ScanIdle, ScanDone}

\* scans called one after the other
NextScan ==
  \/ \E s \in Scans, o \in ScanOptionSets : NoScanInFlight /\ ScanStart(s, o)
  \/ \E s \in Scans : ScanLoop(s)
  \/ \E s \in Scans : ScanLookup(s)
  \/ \E s \in Scans, y \in Yields : ScanFetched(s, y)
  \/ \E s \in Scans : ScanFetchFailed(s)
  \/ TraderTick

SpecScan == InitScan /\ [][NextScan]_vars

\* scans of a trader whose limiter is on, with allow and deny lists
PacedConfigs ==
  {[rateLimitPreset |-> "aggressive", riskConfig |-> [dedupeWindowMs |-> 2]],
   [rateLimitPreset |-> "aggressive",
    riskConfig |-> [dedupeWindowMs |-> 2, excludedChains |-> <<"arbitrum">>]]}

PacedOptionSets ==
  {[modes |-> <<"accumulation">>],
   [chains |-> <<"base">>, modes |-> <<"accumulation", "distribution">>],
   [chains |-> <<"base", "ethereum">>,
    riskOverride |-> [allowedChains |-> <<"base">>]],
   [chains |-> <<"base", "ethereum">>,
    riskOverride |-> [allowedChains |-> << >>,
                      excludedChains |-> <<"ethereum">>]],
   [chains |-> <<"ethereum">>,
    riskOverride |-> [allowedChains |-> <<"base", "ethereum">>,
                      excludedChains |-> <<"ethereum">>]]}

InitPaced ==
  /\ now = TraderEpoch
  /\ op = [name |-> "init"]
  /\ \E config \in PacedConfigs : TraderNew(config)
  /\ mk = NoKey
  /\ PipeIdle

\* the clock runs on to the time the sleep of scan call s ends
ScanSleep(s) ==
  /\ rlpc[s] # Idle
  /\ now < rlpc[s].wake
  /\ now' = rlpc[s].wake
  /\ op' = [name |-> "sleep", caller |-> s]
  /\ UNCHANGED <<logVars, cacheVars, mk, rlVars, pipeVars, traderVars>>

\* scans called one after the other; the bucket of the preset never runs dry
\* in so few calls, so the only sleep is the minimum delay
NextPaced ==
  \/ \E s \in Scans, o \in PacedOptionSets : NoScanInFlight /\ ScanStart(s, o)
  \/ \E s \in Scans : ScanLoop(s)
  \/ \E s \in Scans : ScanLookup(s)
  \/ \E s \in Scans, y \in Yields : ScanFetched(s, y)
  \/ \E s \in Scans : ScanFetchFailed(s)
  \/ \E s \in Scans : WakeMinDelay(s)
  \/ \E s \in Scans : ScanSleep(s)

SpecPaced == InitPaced /\ [][NextPaced]_vars

\* scans that analyze their top signals
NextEnrich ==
  \/ \E s \in Scans, o \in AnalyzeOptionSets : ScanStart(s, o)
  \/ \E s \in Scans : ScanLoop(s)
  \/ \E s \in Scans : ScanLookup(s)
  \/ \E s \in Scans, y \in Yields : ScanFetched(s, y)
  \/ \E s \in Scans : ScanFetchFailed(s)
  \/ \E s \in Scans : ScanEnrich(s)
  \/ \E s \in Scans : ScanEnrichLookup(s)
  \/ \E s \in Scans, a \in McpAnalyses : ScanEnrichFetched(s, a)
  \/ \E s \in Scans : ScanEnrichFailed(s)
  \/ TraderTick

SpecEnrich == InitScan /\ [][NextEnrich]_vars

\* scans with analyze over two chains, one after the other, limiter on
WideAnalyzeOptionSets ==
  {[chains |-> <<"base">>, analyze |-> TRUE],
   [chains |-> <<"base", "ethereum">>, analyze |-> TRUE]}

NextAnalyze ==
  \/ \E s \in Scans, o \in WideAnalyzeOptionSets :
       NoScanInFlight /\ ScanStart(s, o)
  \/ \E s \in Scans : ScanLoop(s)
  \/ \E s \in Scans : ScanLookup(s)
  \/ \E s \in Scans, y \in Yields : ScanFetched(s, y)
  \/ \E s \in Scans : ScanFetchFailed(s)
  \/ \E s \in Scans : ScanEnrich(s)
  \/ \E s \in Scans : ScanEnrichLookup(s)
  \/ \E s \in Scans, a \in McpAnalyses : ScanEnrichFetched(s, a)
  \/ \E s \in Scans : ScanEnrichFailed(s)
  \/ \E s \in Scans : WakeMinDelay(s)
  \/ \E s \in Scans : ScanSleep(s)

SpecAnalyze == InitPaced /\ [][NextAnalyze]_vars

NextMon ==
  \/ \E o \in MonitorOptionSets : Monitor(o)
  \/ \E s \in Scans : MonitorTick(s)
  \/ MonitorCancel
  \/ \E s \in Scans : ScanLoop(s)
  \/ \E s \in Scans : ScanLookup(s)
  \/ \E s \in Scans, y \in Yields : ScanFetched(s, y)
  \/ \E s \in Scans : ScanFetchFailed(s)
  \/ \E s \in Scans, ok \in BOOLEAN : ScanDeliver(s, ok)
  \/ \E c \in Chains, t \in Tokens, m \in Modes :
       SeenExpire(c \o ":" \o t \o ":" \o m)
  \/ TraderTick

SpecMon == InitScan /\ [][NextMon]_vars


(***************************************************************************)
(* Construction: NansenClient, NansenMcp, NansenAgent, NansenTrader        *)
(***************************************************************************)
\* An optional string (an argument left out, an environment variable that is
\* not set) is << >>; a string x is <<x>>.
Absent == << >>

\* JavaScript truthiness of an optional string
StrTruthy(v) == v # Absent /\ v[1] # ""

\* a || b
OrElse(a, b) == IF StrTruthy(a) THEN a ELSE b

KeyRequired == "NANSEN_API_KEY is required"
DEFAULT_BASE_URL == "https://api.nansen.ai/api/v1"
MCP_ENDPOINT == "https://mcp.nansen.ai/ra/mcp"

\* what a constructor call ends with: the error raised or the object built
Raised(message) == [raised |-> message, obj |-> << >>]
Built(object) == [raised |-> "", obj |-> <<object>>]

\* a key lookup that ignores the environment
ResolveKeyArgOnly(apiKey, env) == apiKey

\* const key = apiKey || process.env.NANSEN_API_KEY
ResolveKey(apiKey, env) == OrElse(apiKey, env)

\* new NansenClient(apiKey, baseUrl) with process.env.NANSEN_API_KEY = env
NansenClientNew(apiKey, baseUrl, env) ==
  LET key == ResolveKey(apiKey, env) IN
  IF ~StrTruthy(key) THEN Raised(KeyRequired)
  ELSE Built([cls |-> "NansenClient", apiKey |-> key[1],
              baseUrl |-> OrElse(baseUrl, <<DEFAULT_BASE_URL>>)[1]])

createClient(apiKey, env) == NansenClientNew(apiKey, Absent, env)

\* new NansenMcp(apiKey, mcpEndpoint)
NansenMcpNew(apiKey, mcpEndpoint) ==
  Built([cls |-> "NansenMcp", apiKey |-> apiKey[1],
         mcpEndpoint |-> OrElse(mcpEndpoint, <<MCP_ENDPOINT>>)[1]])

createMcp(apiKey, env) ==
  LET key == ResolveKey(apiKey, env) IN
  IF ~StrTruthy(key) THEN Raised(KeyRequired) ELSE NansenMcpNew(key, Absent)

\* new NansenAgent(apiKey)
NansenAgentNew(apiKey, env) ==
  LET key == ResolveKey(apiKey, env) IN
  IF ~StrTruthy(key) THEN Raised(KeyRequired)
  ELSE LET api == createClient(key, env)
           mcp == createMcp(key, env)
       IN  IF api.raised # "" THEN api
           ELSE IF mcp.raised # "" THEN mcp
           ELSE Built([cls |-> "NansenAgent", apiKey |-> api.obj[1].apiKey,
                       baseUrl |-> api.obj[1].baseUrl,
                       mcpEndpoint |-> mcp.obj[1].mcpEndpoint])

\* the record of a constructor call: its class, its arguments, the
\* environment it ran in and how it ended
NewOp(cls, apiKey, env, result) ==
  [name |-> "new", cls |-> cls, apiKey |-> apiKey, env |-> env,
   raised |-> result.raised, obj |-> result.obj]

NewClient(apiKey, baseUrl, env) ==
  /\ op' = NewOp("NansenClient", apiKey, env,
                 NansenClientNew(apiKey, baseUrl, env))
  /\ UNCHANGED <<now, logVars, cacheVars, mk, rlVars, pipeVars, traderVars>>

NewAgent(apiKey, env) ==
  /\ op' = NewOp("NansenAgent", apiKey, env, NansenAgentNew(apiKey, env))
  /\ UNCHANGED <<now, logVars, cacheVars, mk, rlVars, pipeVars, traderVars>>

\* new NansenTrader(config): the agent is built first; when that raises, no
\* other field is initialised
NewTrader(config, env) ==
  LET agent == NansenAgentNew(IF Has(config, "apiKey") THEN <<config.apiKey>>
                              ELSE Absent, env)
      apiKey == IF Has(config, "apiKey") THEN <<config.apiKey>> ELSE Absent
  IN
  /\ UNCHANGED <<now, mk, pipeVars>>
  /\ IF agent.raised # ""
     THEN /\ op' = NewOp("NansenTrader", apiKey, env, agent)
          /\ UNCHANGED <<logVars, cacheVars, rlVars, traderVars>>
     ELSE /\ op' = NewOp("NansenTrader", apiKey, env,
                         Built([agent.obj[1] EXCEPT !.cls = "NansenTrader"]))
          /\ cstore' = << >>
          /\ cstats' = [hits |-> 0, misses |-> 0, creditsSaved |-> 0]
          /\ defaultTtl' = IF Has(config, "cacheTtlMs") /\ Truthy(config.cacheTtlMs)
                           THEN config.cacheTtlMs ELSE 60000
          /\ cpend' = [p \in Callers |-> Idle]
          /\ lastFetch' = << >>
          /\ rlconfig' = RATE_LIMIT_PRESETS[IF Has(config, "rateLimitPreset")
                                            THEN config.rateLimitPreset
                                            ELSE "standard"]
          /\ tokens' = Milli(rlconfig'.maxTokens)
          /\ lastRefill' = now
          /\ lastRequest' = 0
          /\ rlstats' = [totalRequests |-> 0, throttledRequests |-> 0,
                         totalWaitTimeMs |-> 0]
          /\ rlpc' = [p \in Callers |-> Idle]
          /\ rlast' = [n |-> 0, granted |-> 0]
          /\ signals' = << >> /\ disk' = << >> /\ ret' = << >>
          /\ autoSave' = (~Has(config, "enableSignalLog") \/ config.enableSignalLog)
          /\ riskConfig' = Merge(DEFAULT_RISK_CONFIG,
                                 IF Has(config, "riskConfig") THEN config.riskConfig
                                 ELSE << >>)
          /\ enableRateLimit' =
               (~Has(config, "enableRateLimit") \/ config.enableRateLimit)
          /\ sc' = [s \in Scans |-> ScanIdle]
          /\ mon' = MonOff
          /\ delivered' = << >>

\* the keys, environments and configurations of the construction
\* specification
KeyArgs == {Absent, <<"">>, <<"arg-key">>}
EnvValues == {Absent, <<"">>, <<"env-key">>}
BaseUrls == {Absent, <<"http://localhost">>}

NewTraderConfigs ==
  {Merge(k, Merge(p, r)) :
     k \in {<< >>, [apiKey |-> ""], [apiKey |-> "arg-key"]},
     p \in {<< >>, [rateLimitPreset |-> "conservative"]},
     r \in {<< >>, [enableSignalLog |-> FALSE],
            [riskConfig |-> [minScore |-> 40]]}}

NextNew ==
  \/ \E k \in KeyArgs, u \in BaseUrls, e \in EnvValues : NewClient(k, u, e)
  \/ \E k \in KeyArgs, e \in EnvValues : NewAgent(k, e)
  \/ \E c \in NewTraderConfigs, e \in EnvValues : NewTrader(c, e)
  \/ LogTick

SpecNew == InitLog /\ [][NextNew]_vars


(***************************************************************************)
(* SignalLog.find and SignalLog.getStats                                   *)
(***************************************************************************)
\* A filter is a record of the fields given; dates are clock values.
\* `s.outcome?.pnl !== undefined`
HasPnl(s) == Has(s, "outcome") /\ Has(s.outcome, "pnl")

\* results.sort((a, b) => b.loggedAt - a.loggedAt): stable, newest first
RECURSIVE InsertNewest(_, _)
InsertNewest(x, sorted) ==
  IF sorted = << >> THEN <<x>>
  ELSE IF Head(sorted).loggedAt - x.loggedAt < 0 THEN <<x>> \o sorted
       ELSE <<Head(sorted)>> \o InsertNewest(x, Tail(sorted))

RECURSIVE SortNewest(_)
SortNewest(seq) ==
  IF seq = << >> THEN << >>
  ELSE InsertNewest(seq[Len(seq)], SortNewest(SubSeq(seq, 1, Len(seq) - 1)))

\* the conjunction of the filters of find that are in force
FindKeep(s, filter) ==
  /\ NonEmptyList(filter, "chains") => s.chain \in Range(filter.chains)
  /\ NonEmptyList(filter, "modes") => s.type \in Range(filter.modes)
  /\ Has(filter, "minScore") => s.score >= filter.minScore
  /\ Has(filter, "maxScore") => s.score <= filter.maxScore
  /\ Has(filter, "acted") => s.acted = filter.acted
  /\ Has(filter, "hasOutcome") =>
       IF filter.hasOutcome THEN HasPnl(s) ELSE ~HasPnl(s)
  /\ Has(filter, "startDate") => s.loggedAt >= filter.startDate
  /\ Has(filter, "endDate") => s.loggedAt <= filter.endDate

\* SignalLog.find(filter) on the store m
find(m, filter) ==
  LET results == SortNewest(SelectSeq(m, LAMBDA s : FindKeep(s, filter)))
  IN  IF Present(filter, "limit") THEN Slice(results, filter.limit)
      ELSE results

\* how many elements of seq satisfy Test
Count(seq, Test(_)) == Len(SelectSeq(seq, Test))

\* byChain / byMode: a count for each key that occurs
Histogram(found, Field(_)) ==
  [k \in {Field(found[i]) : i \in 1..Len(found)} |->
     Count(found, LAMBDA s : Field(s) = k)]

\* a getStats that counts every signal as skipped
getStatsAllSkipped(m, filter) ==
  LET found == find(m, filter)
      withOutcome == SelectSeq(found, HasPnl)
      profitable == SelectSeq(withOutcome, LAMBDA s : s.outcome.pnl > 0)
  IN  [totalSignals |-> Len(found),
       actedOn |-> Count(found, LAMBDA s : s.acted),
       skipped |-> Len(found),
       withOutcome |-> Len(withOutcome),
       profitableCount |-> Len(profitable),
       winRate |-> IF Len(withOutcome) > 0
                   THEN Frac(Len(profitable), Len(withOutcome))
                   ELSE Frac(0, 1),
       byChain |-> Histogram(found, LAMBDA s : s.chain),
       byMode |-> Histogram(found, LAMBDA s : s.type)]

\* SignalLog.getStats(filter) on the store m: the counts and winRate
getStats(m, filter) ==
  LET found == find(m, filter)
      withOutcome == SelectSeq(found, HasPnl)
      profitable == SelectSeq(withOutcome, LAMBDA s : s.outcome.pnl > 0)
  IN  [totalSignals |-> Len(found),
       actedOn |-> Count(found, LAMBDA s : s.acted),
       skipped |-> Count(found, LAMBDA s : ~s.acted),
       withOutcome |-> Len(withOutcome),
       profitableCount |-> Len(profitable),
       winRate |-> IF Len(withOutcome) > 0
                   THEN Frac(Len(profitable), Len(withOutcome))
                   ELSE Frac(0, 1),
       byChain |-> Histogram(found, LAMBDA s : s.chain),
       byMode |-> Histogram(found, LAMBDA s : s.type)]

Find(filter) ==
  /\ op' = [name |-> "find", filter |-> filter,
            result |-> find(signals, filter)]
  /\ UNCHANGED <<now, logVars, cacheVars, mk, rlVars, pipeVars, traderVars>>

GetStats(filter) ==
  /\ op' = [name |-> "getStats", filter |-> filter,
            stats |-> getStats(signals, filter)]
  /\ UNCHANGED <<now, logVars, cacheVars, mk, rlVars, pipeVars, traderVars>>

\* the signals and filters of the query specification
CandE4 ==
  [chain |-> "ethereum", token |-> "X", type |-> "distribution",
   timestamp |-> 1, score |-> 4]

FindCands == {CandX2, CandE4}

FindIds == {generateId(c) : c \in FindCands}

FindOutcomes ==
  { [entryPrice |-> 100, exitPrice |-> 150],
    [entryPrice |-> 100, exitPrice |-> 50] }

FindFilters ==
  { [chains |-> << >>],
    [hasOutcome |-> TRUE],
    [hasOutcome |-> FALSE],
    [acted |-> TRUE],
    [acted |-> FALSE, limit |-> 1],
    [chains |-> <<"base">>, modes |-> <<"accumulation">>],
    [modes |-> <<"distribution">>, hasOutcome |-> TRUE],
    [minScore |-> 4],
    [maxScore |-> 4, limit |-> 2],
    [startDate |-> 1],
    [endDate |-> 0, limit |-> 0] }

NextFind ==
  \/ \E c \in FindCands : Log(c)
  \/ \E id \in FindIds, a \in MarkArgs : MarkActed(id, a[1], a[2])
  \/ \E id \in FindIds, o \in FindOutcomes : RecordOutcome(id, o)
  \/ \E f \in FindFilters : Find(f)
  \/ \E f \in FindFilters : GetStats(f)
  \/ LogTick

InitFind == InitLog /\ autoSave

SpecFind == InitFind /\ [][NextFind]_vars

(***************************************************************************)
(* SignalLog: construction over a persisted snapshot                       *)
(***************************************************************************)
\* What is at logPath when the SignalLog is constructed: no file, a file
\* readFileSync cannot read, a text JSON.parse rejects, or a JSON value.
NoFile == [kind |-> "none"]
Unreadable == [kind |-> "unreadable"]
BadJson == [kind |-> "text"]
Json(value) == [kind |-> "json", value |-> value]

\* JSON values: null, a number, a string (its characters), an object (its
\* fields) and an array (its elements)
JNull == [t |-> "null"]
JNum(n) == [t |-> "num", n |-> n]
JText(chars) == [t |-> "str", chars |-> chars]
JObject(fields) == [t |-> "obj", fields |-> fields]
JArray(items) == [t |-> "arr", items |-> items]

\* the entry this.signals.set(signal.id, signal) stores for an element that
\* is not null: the key is kept in the entry's id, which is Undefined for an
\* element without an id; a value that is not an object is kept in raw
LoadedEntry(element) ==
  IF element.t = "obj"
  THEN Merge(element.fields,
             [id |-> IF Has(element.fields, "id") THEN element.fields.id
                     ELSE Undefined])
  ELSE [id |-> Undefined, raw |-> element]

\* the loop of load over the elements: reading the id of null throws, which
\* ends the loop with the entries set so far; <<store, thrown>>
RECURSIVE LoadItems(_, _)
LoadItems(m, items) ==
  IF items = << >> THEN <<m, FALSE>>
  ELSE IF Head(items).t = "null" THEN <<m, TRUE>>
  ELSE LET e == LoadedEntry(Head(items)) IN
       LoadItems(MapSet(m, e.id, e), Tail(items))

\* SignalLog.load on the empty store of a new SignalLog:
\* [store, error (something was thrown and caught), raised]
Load(file) ==
  IF file.kind = "none"
  THEN [store |-> << >>, error |-> FALSE, raised |-> FALSE]
  ELSE IF file.kind \in {"unreadable", "text"}
  THEN [store |-> << >>, error |-> TRUE, raised |-> FALSE]
  ELSE LET data == file.value IN
       IF data.t \in {"null", "num", "obj"}
       THEN [store |-> << >>, error |-> TRUE, raised |-> FALSE]
       ELSE LET r == LoadItems(<< >>, IF data.t = "arr" THEN data.items
                                     ELSE [i \in 1..Len(data.chars) |->
                                             JText(<<data.chars[i]>>)])
            IN  [store |-> r[1], error |-> r[2], raised |-> FALSE]

\* new SignalLog(logPath, autoSave) with file at logPath
SignalLogNew(file, save) ==
  LET r == Load(file) IN
  /\ signals' = r.store
  /\ autoSave' = save
  /\ ret' = << >>
  /\ UNCHANGED disk
  /\ op' = [name |-> "newSignalLog", file |-> file, error |-> r.error,
            raised |-> r.raised]
  /\ UNCHANGED <<now, cacheVars, mk, rlVars, pipeVars, traderVars>>

\* the snapshots of the construction specification
SnapshotElements ==
  { JObject(NewEntry(CandX2, 0)), JObject(NewEntry(CandY6, 0)),
    JObject([chain |-> "base"]), JNum(1), JNull }

Snapshots ==
  {NoFile, Unreadable, BadJson}
    \cup {Json(v) : v \in {JNull, JNum(7), JText(<< >>), JText(<<"a", "b">>),
                           JObject([signals |-> 0])}}
    \cup {Json(JArray(a)) :
            a \in UNION {[1..n -> SnapshotElements] : n \in 0..2}}

NextLoad ==
  \/ \E f \in Snapshots, a \in BOOLEAN : SignalLogNew(f, a)
  \/ LogTick

SpecLoad == InitLog /\ [][NextLoad]_vars

(***************************************************************************)
(* NansenClient.request                                                    *)
(***************************************************************************)
\* A response of fetch: ok, status, statusText and its body, which is
\* Unparsable (response.json() rejects) or a JSON value.
Unparsable == [t |-> "unparsable"]

\* the value of errorData.f: undefined (<< >>) when errorData is not an object
\* or has no such field
Field(errorData, f) ==
  IF errorData.t = "obj" /\ Has(errorData.fields, f)
  THEN <<errorData.fields[f]>> ELSE Absent

\* NansenClient.request from the response on: what the call ends with
request(response) ==
  IF ~response.ok
  THEN LET errorData ==
             IF response.body = Unparsable
             THEN JObject([code |-> "HTTP_" \o ToString(response.status),
                           message |-> response.statusText])
             ELSE response.body
       IN  IF errorData.t = "null"
           THEN [kind |-> "TypeError"]
           ELSE [kind |-> "NansenApiError",
                 code |-> OrElse(Field(errorData, "code"),
                                 <<"HTTP_" \o ToString(response.status)>>)[1],
                 message |-> OrElse(Field(errorData, "message"),
                                    <<"API request failed">>)[1],
                 details |-> Field(errorData, "details")]
  ELSE IF response.body = Unparsable THEN [kind |-> "SyntaxError"]
       ELSE [kind |-> "data", data |-> response.body]

Request(response) ==
  /\ op' = [name |-> "request", response |-> response,
            result |-> request(response)]
  /\ UNCHANGED <<now, logVars, cacheVars, mk, rlVars, pipeVars, traderVars>>

\* the responses of the request specification
ErrorBodies ==
  { Unparsable, JNull, JNum(0), JText(<<"o", "k">>), JObject(<< >>),
    JObject([code |-> "UNAUTHORIZED", message |-> "Invalid API key"]),
    JObject([code |-> "", message |-> "",
             details |-> "retry"]) }

Responses ==
  [ok : BOOLEAN, status : {200, 401, 500},
   statusText : {"", "Internal Server Error"}, body : ErrorBodies]

NextRequest ==
  \/ \E r \in Responses : Request(r)
  \/ LogTick

SpecRequest == InitLog /\ [][NextRequest]_vars

(***************************************************************************)
(* NansenClient.getSmartMoneyNetflow                                       *)
(***************************************************************************)
\* the item getSmartMoneyNetflow builds from a row of the response (the
\* fields its filters, its sort and the claims read)
NetflowItem(row) ==
  [token |-> row.token_address, chain |-> row.chain,
   netflow |-> row.net_flow_24h_usd, netflowUsd |-> row.net_flow_24h_usd,
   inflow |-> IF row.net_flow_24h_usd > 0 THEN row.net_flow_24h_usd ELSE 0,
   outflow |-> IF row.net_flow_24h_usd < 0 THEN Abs(row.net_flow_24h_usd)
               ELSE 0]

\* Array.prototype.filter with the three filters of getSmartMoneyNetflow
NetflowKeep(d, params) ==
  /\ (Has(params, "direction") /\ params.direction = "inflow") => d.netflow > 0
  /\ (Has(params, "direction") /\ params.direction = "outflow") => d.netflow < 0
  /\ Present(params, "minValue") => Abs(d.netflowUsd) >= params.minValue
  /\ (~Has(params, "chains")) => d.chain = params.chain

\* data.sort((a, b) => Math.abs(b.netflowUsd) - Math.abs(a.netflowUsd)),
\* a stable sort
RECURSIVE InsertByFlow(_, _)
InsertByFlow(x, sorted) ==
  IF sorted = << >> THEN <<x>>
  ELSE IF Abs(Head(sorted).netflowUsd) - Abs(x.netflowUsd) < 0
       THEN <<x>> \o sorted
       ELSE <<Head(sorted)>> \o InsertByFlow(x, Tail(sorted))

RECURSIVE SortByFlow(_)
SortByFlow(seq) ==
  IF seq = << >> THEN << >>
  ELSE InsertByFlow(seq[Len(seq)], SortByFlow(SubSeq(seq, 1, Len(seq) - 1)))

\* getSmartMoneyNetflow(params) on the rows of the response
getSmartMoneyNetflow(params, rows) ==
  LET data == [i \in 1..Len(rows) |-> NetflowItem(rows[i])]
      keep(d) == NetflowKeep(d, params)
      sorted == SortByFlow(SelectSeq(data, keep))
  IN  IF Present(params, "limit") THEN Slice(sorted, params.limit) ELSE sorted

GetSmartMoneyNetflow(params, rows) ==
  /\ op' = [name |-> "getSmartMoneyNetflow", params |-> params, rows |-> rows,
            result |-> getSmartMoneyNetflow(params, rows)]
  /\ UNCHANGED <<now, logVars, cacheVars, mk, rlVars, pipeVars, traderVars>>

\* the rows and parameters of the netflow specification: a response holds at
\* most one row per token
NetflowRow(token, chain, usd) ==
  [token_address |-> token, chain |-> chain, net_flow_24h_usd |-> usd]

NetflowRows ==
  { NetflowRow("A", "base", 100000), NetflowRow("B", "base", -60000),
    NetflowRow("C", "base", 30000), NetflowRow("D", "base", 0),
    NetflowRow("E", "ethereum", 90000) }

RowLists ==
  {r \in UNION {[1..n -> NetflowRows] : n \in 0..MaxRows} :
     \A i, j \in 1..Len(r) : r[i] = r[j] => i = j}

NetflowParams ==
  {Merge([chain |-> "base"], Merge(d, Merge(v, l))) :
     d \in {<< >>, [direction |-> "inflow"], [direction |-> "outflow"]},
     v \in {<< >>, [minValue |-> 0], [minValue |-> 50000]},
     l \in {<< >>, [limit |-> 0], [limit |-> 1], [limit |-> 2]}}

\* one call on a new client
NextNetflow ==
  \E p \in NetflowParams, r \in RowLists :
    op.name = "init" /\ GetSmartMoneyNetflow(p, r)

SpecNetflow == InitLog /\ [][NextNetflow]_vars

(***************************************************************************)
(* Properties of SignalLog                                                 *)
(***************************************************************************)
KeyOf(s) == <<s.chain, s.token, s.type, s.timestamp>>

StoredWithKey(m, k) == {i \in 1..Len(m) : KeyOf(m[i]) = k}

\* C1: logging a candidate whose (chain, token, type, timestamp) is already
\* stored returns the stored signal as it is and leaves the store as it was;
\* after log / logBatch every logged candidate has exactly one record, and
\* the store never holds two records with the same (chain, token, type,
\* timestamp).
C1_IdempotentLog ==
  /\ [](\A i, j \in 1..Len(signals) :
          KeyOf(signals[i]) = KeyOf(signals[j]) => i = j)
  /\ [][op'.name \in {"log", "logBatch"} =>
         /\ Len(ret') = Len(op'.cands)
         /\ \A n \in 1..Len(op'.cands) :
              LET k == KeyOf(op'.cands[n]) IN
              /\ Cardinality(StoredWithKey(signals', k)) = 1
              /\ \A i \in StoredWithKey(signals, k) :
                    /\ ret'[n] = signals[i]
                    /\ signals'[i] = signals[i]
         /\ \A i \in 1..Len(signals) : signals'[i] = signals[i]
         /\ (\A n \in 1..Len(op'.cands) :
               StoredWithKey(signals, KeyOf(op'.cands[n])) # {})
              => signals' = signals]_vars

\* C1 witness: log returned a stored signal that was marked acted before and
\* whose score is not the score of the candidate passed in
C1_Witness ==
  /\ op.name = "log"
  /\ ret[1].acted
  /\ ret[1].score # op.cands[1].score
  /\ Len(signals) = 2

\* C9 (as claimed): after recordOutcome on a stored signal, an outcome with
\* both an entryPrice and an exitPrice has pnl = exitPrice - entryPrice and
\* pnlPercent = pnl / entryPrice * 100.
C9_PnlDerived ==
  (op.name = "recordOutcome" /\ ret # << >>) =>
    LET o == ret[1].outcome IN
    (Has(o, "entryPrice") /\ Has(o, "exitPrice")) =>
      /\ Has(o, "pnl") /\ o.pnl = o.exitPrice - o.entryPrice
      /\ Has(o, "pnlPercent")
      /\ o.pnlPercent = Frac((o.exitPrice - o.entryPrice) * 100, o.entryPrice)

\* the fields of a stored signal that no operation may change
FixedFields == {"id", "chain", "token", "type", "score", "timestamp", "loggedAt"}

\* C14: a step of log, logBatch, markActed or recordOutcome (any step but
\* clear) keeps every stored signal in the store under its id, with the same
\* id, chain, token, mode, score, timestamp and loggedAt; an acted flag that
\* was true stays true and an outcome that was present stays present.
C14_StoredSignalMonotone ==
  [][op'.name # "clear" =>
       \A i \in 1..Len(signals) :
         LET before == signals[i] IN
         /\ MapHas(signals', before.id)
         /\ LET after == MapGet(signals', before.id) IN
              /\ \A f \in FixedFields : Has(after, f) /\ after[f] = before[f]
              /\ before.acted => after.acted
              /\ Has(before, "outcome") => Has(after, "outcome")]_vars

\* C14 witness: logBatch was handed a candidate whose stored signal was
\* logged earlier with another score, has been acted on and carries an
\* outcome with an exit price
C14_Witness ==
  /\ op.name = "logBatch"
  /\ \E i \in 1..Len(signals), n \in 1..Len(op.cands) :
        /\ generateId(op.cands[n]) = signals[i].id
        /\ op.cands[n].score # signals[i].score
        /\ signals[i].loggedAt < now
        /\ signals[i].acted
        /\ Has(signals[i], "outcome")
        /\ Has(signals[i].outcome, "exitPrice")

\* C15: markActed and recordOutcome called with an id that is not in the
\* store return absent, leave the store as it was, and neither call save()
\* nor change the persisted snapshot.
C15_UnknownIdIsNoOp ==
  [][(op'.name \in {"markActed", "recordOutcome"} /\ ~MapHas(signals, op'.id))
       => /\ ret' = << >>
          /\ signals' = signals
          /\ ~op'.saved
          /\ disk' = disk]_vars

\* C15 witness: with autoSave on and two signals stored, one of them acted
\* on, recordOutcome was called with an id the store does not hold
C15_Witness ==
  /\ op.name = "recordOutcome"
  /\ ~MapHas(signals, op.id)
  /\ ret = << >>
  /\ autoSave
  /\ Len(signals) = 2
  /\ \E i \in 1..Len(signals) : signals[i].acted
  /\ disk = Save(signals)

\* an element of a snapshot that is a logged signal
WellFormed(element) ==
  /\ element.t = "obj"
  /\ {"id", "chain", "token", "type", "score", "timestamp", "loggedAt",
      "acted"} \subseteq DOMAIN element.fields

\* a snapshot that is corrupt or unreadable
Corrupt(file) ==
  \/ file.kind \in {"unreadable", "text"}
  \/ /\ file.kind = "json"
     /\ \/ file.value.t # "arr"
        \/ \E i \in 1..Len(file.value.items) : ~WellFormed(file.value.items[i])

\* C21 (as claimed): constructing a SignalLog over a snapshot that is
\* unreadable, is not JSON, is not an array or is an array with a malformed
\* element raises nothing and leaves the store empty.
C21_CorruptSnapshotIsEmptyStore ==
  (op.name = "newSignalLog" /\ Corrupt(op.file)) =>
    (~op.raised /\ signals = << >>)

\* C23 (as claimed): a request whose response is not OK ends with a
\* NansenApiError, whether the body is JSON or cannot be parsed; it returns no
\* data and ends with no other error.
C23_NotOkIsNansenApiError ==
  (op.name = "request" /\ ~op.response.ok) =>
    op.result.kind = "NansenApiError"

\* the tokens of the rows that pass what the call asked for: the direction,
\* the minimum value and the chain
Passing(params, rows) ==
  {rows[i].token_address : i \in
     {i \in 1..Len(rows) :
        LET usd == rows[i].net_flow_24h_usd IN
        /\ (Has(params, "direction") /\ params.direction = "inflow") => usd > 0
        /\ (Has(params, "direction") /\ params.direction = "outflow") => usd < 0
        /\ Has(params, "minValue") => Abs(usd) >= params.minValue
        /\ rows[i].chain = params.chain}}

FlowOf(rows, token) ==
  Abs(rows[CHOOSE i \in 1..Len(rows) : rows[i].token_address = token]
        .net_flow_24h_usd)

\* C24 (as claimed): getSmartMoneyNetflow returns items of rows that pass
\* the direction and the minimum value, each once; all of them when no limit
\* is given and at most limit of them when one is, no row left out having a
\* larger |netflowUsd| than a row returned.
C24_NetflowFilterAndLimit ==
  op.name = "getSmartMoneyNetflow" =>
    LET result == op.result
        kept == {result[i].token : i \in 1..Len(result)}
        passing == Passing(op.params, op.rows)
    IN  /\ kept \subseteq passing
        /\ Cardinality(kept) = Len(result)
        /\ \A i \in 1..Len(result) :
             result[i].netflowUsd =
               op.rows[CHOOSE n \in 1..Len(op.rows) :
                         op.rows[n].token_address = result[i].token]
                 .net_flow_24h_usd
        /\ IF Has(op.params, "limit")
           THEN Len(result) = Min(op.params.limit, Cardinality(passing))
           ELSE kept = passing
        /\ \A k \in kept, p \in passing \ kept :
             FlowOf(op.rows, p) <= FlowOf(op.rows, k)

(***************************************************************************)
(* Properties of construction                                              *)
(***************************************************************************)
\* a key: a string that is not empty
IsKey(v) == v # Absent /\ v[1] # ""

\* C16: a constructor call of NansenClient, NansenAgent or NansenTrader with
\* no key argument and no NANSEN_API_KEY in the environment ends by raising
\* 'NANSEN_API_KEY is required', builds no object and leaves the cache, the
\* rate limiter and the trader's state as they were (no request was made);
\* with a key in the argument or in the environment it raises nothing and
\* builds the object, which carries the argument's key if there is one and
\* the environment's otherwise.
C16_KeyRequiredAtConstruction ==
  [][op'.name = "new" =>
       /\ (op'.apiKey = Absent /\ op'.env = Absent) =>
            /\ op'.raised = KeyRequired
            /\ op'.obj = << >>
            /\ UNCHANGED <<logVars, cacheVars, rlVars, traderVars>>
       /\ (IsKey(op'.apiKey) \/ IsKey(op'.env)) =>
            /\ op'.raised = ""
            /\ Len(op'.obj) = 1
            /\ op'.obj[1].cls = op'.cls
            /\ op'.obj[1].apiKey =
                 (IF IsKey(op'.apiKey) THEN op'.apiKey ELSE op'.env)[1]]_vars

\* C16 witness: after a trader was built with the key of the environment and
\* the conservative limiter, a second NansenTrader call without any key
\* raised and left that limiter in place
C16_Witness ==
  /\ op.name = "new"
  /\ op.cls = "NansenTrader"
  /\ op.apiKey = Absent
  /\ op.env = Absent
  /\ op.raised = KeyRequired
  /\ rlconfig = RATE_LIMIT_PRESETS["conservative"]

(***************************************************************************)
(* Properties of Cache                                                     *)
(***************************************************************************)
\* C2 (as claimed): when getOrFetch is called for a key whose value an earlier
\* getOrFetch(key, f, ttl) stored, it returns the stored value without
\* calling the fetcher if at most ttl ms have passed since the value was
\* stored, and calls the fetcher if more than ttl ms have passed.
C2_FetchOncePerTtl ==
  [][(op'.name = "getOrFetch" /\ Has(lastFetch, op'.key)) =>
       LET f == lastFetch[op'.key] IN
       /\ (now - f.at <= f.ttl[1]) =>
             (op'.hit /\ op'.value = <<cstore[op'.key].data>>)
       /\ (now - f.at > f.ttl[1]) => ~op'.hit]_vars

\* the orders in which the properties of a parameter object can be inserted
Reorderings(params) ==
  {[i \in 1..Len(params) |-> params[sigma[i]]] :
     sigma \in Permutations(1..Len(params))}

\* C3: makeKey gives the same key for every insertion order of the same
\* parameters (same names, same values).
C3_KeyOrderIndependent ==
  mk.key # << >> =>
    \A q \in Reorderings(mk.params) : makeKey(mk.prefix, q) = mk.key[1]

\* C3 witness: a key was made for three parameters of which another
\* insertion order enumerates differently
C3_Witness ==
  /\ mk.key # << >>
  /\ Len(mk.params) = 3
  /\ \E q \in Reorderings(mk.params) : ObjectKeys(q) # ObjectKeys(mk.params)
  /\ ObjectKeys(mk.params) # SortNames(ObjectKeys(mk.params), CodeUnitLess)

(***************************************************************************)
(* Properties of RateLimiter                                               *)
(***************************************************************************)
\* C4: the step that completes an acquire(cost) lowers the token count by
\* exactly cost from the count at the deduction (the count as it stands, or
\* as just refilled), and the token count never exceeds maxTokens.
C4_TokenConservation ==
  /\ [](tokens <= Milli(rlconfig.maxTokens))
  /\ [][rlast'.n # rlast.n =>
         /\ tokens' = rlast'.before - Milli(rlast'.cost)
         /\ rlast'.before \in
              {tokens, Refilled(tokens, lastRefill, now, rlconfig)}]_vars

\* C4 witness: an acquire has completed after sleeping in the wait loop and
\* left an empty bucket
C4_Witness ==
  /\ Has(rlast, "before")
  /\ rlstats.totalWaitTimeMs > 10
  /\ lastRequest = now
  /\ tokens = 0

\* C25 (as claimed): whatever the interleaving of the callers of one
\* limiter, an acquire completes at least minDelayMs after the acquire that
\* completed before it.
C25_CompletionsMinDelayApart ==
  [][(rlast'.n # rlast.n /\ Has(rlast, "before")) =>
       lastRequest' - lastRequest >= rlconfig.minDelayMs]_vars

\* C26: whatever the interleaving of the callers of one limiter, the token
\* count is never negative, an acquire deducts its cost from a count that is
\* at least its cost, and the tokens granted to all callers so far are no
\* more than the initial bucket plus the refill accrued since.
C26_SharedBucketBounded ==
  /\ [](tokens >= 0)
  /\ [](rlast.granted <=
          Milli(rlconfig.maxTokens) + (now - RLEpoch) * rlconfig.refillRate)
  /\ [][rlast'.n # rlast.n =>
         /\ rlast'.before >= Milli(rlast'.cost)
         /\ tokens' = rlast'.before - Milli(rlast'.cost)]_vars

\* C26 witness: both callers were asleep in acquire when one of them took the
\* tokens the other is waiting for
C26_Witness ==
  /\ op.name \in {"wakeMinDelay", "wakeTokens"}
  /\ rlpc[op.caller] = Idle
  /\ \E q \in RLCallers :
       /\ q # op.caller
       /\ rlpc[q].st = "tokwait"
       /\ rlpc[q].wake <= now
       /\ tokens < Milli(rlpc[q].cost)
  /\ rlast.granted > Milli(rlconfig.maxTokens)

\* C27 (as claimed): with refillRate > 0 and no other caller taking tokens,
\* the sleep of acquire's wait loop covers the shortfall, for every cost: the
\* call completes when it wakes.
C27_WakeCompletes ==
  [][op'.name = "wakeTokens" => rlpc'[op'.caller] = Idle]_vars

(***************************************************************************)
(* Properties of the risk pipeline                                         *)
(***************************************************************************)
Keys(seq) == {DedupKey(seq[i]) : i \in 1..Len(seq)}

NoRecentMatch(seq) ==
  \A i \in 1..Len(seq) :
    ~hasRecentSignal(signals, seq[i], pin.risk.dedupeWindowMs, now)

\* C8: when no candidate of the batch matches a recently logged signal, the
\* deduplicated batch holds exactly one candidate per chain+token of the
\* batch, and it has the highest score of the batch's candidates with that
\* chain+token.
C8_DedupKeepsBest ==
  (pout # << >> /\ NoRecentMatch(pout[1].filtered)) =>
    LET batch == pout[1].filtered
        out == pout[1].deduped
    IN /\ Keys(out) = Keys(batch)
       /\ Len(out) = Cardinality(Keys(batch))
       /\ \A i \in 1..Len(out) :
            /\ \E j \in 1..Len(batch) : batch[j] = out[i]
            /\ \A j \in 1..Len(batch) :
                 DedupKey(batch[j]) = DedupKey(out[i])
                   => batch[j].score <= out[i].score

\* C8 witness: a batch of three candidates of the same chain+token and two
\* modes, the best one not last, was deduplicated to one
C8_Witness ==
  /\ pout # << >>
  /\ NoRecentMatch(pout[1].filtered)
  /\ Len(pout[1].filtered) = 3
  /\ Len(pout[1].deduped) = 1
  /\ pout[1].filtered[3].score < pout[1].deduped[1].score
  /\ \E i \in 1..3 : pout[1].filtered[i].type # pout[1].deduped[1].type

\* C10: for the same candidates, store and otherwise equal risk
\* configuration, a larger minScore never gives more output signals.
C10_MinScoreMonotone ==
  pout # << >> =>
    \A ms \in {m \in 0..Tenths(7) : m >= pin.risk.minScore} :
      Len(Pipeline(pin.cands, [pin.risk EXCEPT !.minScore = ms], pin.limit,
                   signals, now).top)
        <= Len(pout[1].top)

\* C10 witness: the pipeline ran on candidates of which a larger minScore
\* drops some, with a recently logged signal in the store and a limit that
\* truncates
C10_Witness ==
  /\ pout # << >>
  /\ Len(pout[1].top) = 1
  /\ Len(pout[1].scored) = 2
  /\ signals # << >>
  /\ Len(Pipeline(pin.cands, [pin.risk EXCEPT !.minScore = Tenths(7)],
                  pin.limit, signals, now).top) = 0

\* the threshold test the filter is claimed to make: a threshold that is
\* configured and a metric that is present, whatever its value
ClaimedBelow(risk, f, m, g, value) ==
  Present(risk, f) /\ Has(m, g) /\ value < risk[f]

ClaimedPass(s, risk) ==
  LET m == s.metrics IN
  /\ s.score >= risk.minScore
  /\ ~ClaimedBelow(risk, "minSmartMoneyBuyers", m, "buyers",
                   IF Has(m, "buyers") THEN m.buyers ELSE 0)
  /\ ~ClaimedBelow(risk, "minNetflowUsd", m, "netflow24h",
                   IF Has(m, "netflow24h") THEN Abs(m.netflow24h) ELSE 0)
  /\ ~ClaimedBelow(risk, "minFreshWallets", m, "freshWallets",
                   IF Has(m, "freshWallets") THEN m.freshWallets ELSE 0)

\* C11 (as claimed): a candidate passes the threshold filter if and only if
\* its score is at least minScore and, for each of buyers, |netflow24h| and
\* freshWallets, the threshold is not configured, or the metric is absent, or
\* the metric present on the candidate (any value, zero included) is not
\* below the threshold.
C11_ThresholdFilter ==
  pout # << >> =>
    pout[1].filtered = SelectSeq(pin.cands, LAMBDA s : ClaimedPass(s, pin.risk))

\* the riskScore and the factor names as claimed: a metric counts when it is
\* present, whatever its value
ClaimedRatio(m) == Has(m, "buyers") /\ Has(m, "sellers") /\ m.buyers > 2 * m.sellers
ClaimedFlow(m) == Has(m, "netflow24h") /\ m.netflow24h > 100000
ClaimedSell(m) == Has(m, "buyers") /\ Has(m, "sellers") /\ m.sellers > m.buyers

ClaimedRiskScore(s) ==
  (IF s.score > Tenths(5) THEN 2 ELSE IF s.score > Tenths(3) THEN 1 ELSE 0)
    + (IF ClaimedRatio(s.metrics) THEN 1 ELSE 0)
    + (IF ClaimedFlow(s.metrics) THEN 1 ELSE 0)
    - (IF ClaimedSell(s.metrics) THEN 1 ELSE 0)

ClaimedFactors(s) ==
  (IF ClaimedRatio(s.metrics) THEN {"Strong buyer/seller ratio"} ELSE {})
    \cup (IF ClaimedFlow(s.metrics) THEN {"High netflow"} ELSE {})
    \cup (IF ClaimedSell(s.metrics) THEN {"More sellers than buyers"} ELSE {})

\* C12 (as claimed): for every surviving candidate riskScore is the sum of the
\* score, buyer/seller, netflow and seller-majority contributions, and
\* riskFactors lists exactly the names of the contributions that fired, for
\* any metric values present, zero included.
C12_RiskScoreSum ==
  pout # << >> =>
    \A i \in 1..Len(pout[1].scored) :
      LET s == pout[1].scored[i] IN
      /\ s.riskScore = ClaimedRiskScore(s)
      /\ Range(s.riskFactors) = ClaimedFactors(s)
      /\ Len(s.riskFactors) = Cardinality(ClaimedFactors(s))

\* C13: recommendation and confidence are a function of riskScore alone, and
\* suggestedAction is present exactly for strong_buy and buy, with urgency
\* high and positionSizeHint medium iff strong_buy.
C13_RecommendationOfRiskScore ==
  pout # << >> =>
    \A i \in 1..Len(pout[1].scored) :
      LET s == pout[1].scored[i]
          r == s.riskScore
      IN
      /\ r >= 3 => (s.recommendation = "strong_buy" /\ s.confidence = 8)
      /\ (1 <= r /\ r < 3) => (s.recommendation = "buy" /\ s.confidence = 6)
      /\ r = 0 => (s.recommendation = "watch" /\ s.confidence = 4)
      /\ r < 0 => (s.recommendation = "avoid" /\ s.confidence = 3)
      /\ Has(s, "suggestedAction") <=> s.recommendation \in {"strong_buy", "buy"}
      /\ Has(s, "suggestedAction") =>
           /\ s.suggestedAction.urgency =
                (IF s.recommendation = "strong_buy" THEN "high" ELSE "medium")
           /\ s.suggestedAction.positionSizeHint =
                (IF s.recommendation = "strong_buy" THEN "medium" ELSE "small")

\* C13 witness: the pipeline has scored a strong_buy, a watch and an avoid
\* signal in one run
C13_Witness ==
  /\ pout # << >>
  /\ {"strong_buy", "watch", "avoid"} \subseteq
       {pout[1].scored[i].recommendation : i \in 1..Len(pout[1].scored)}

\* C22 (as claimed): two scans given the same candidates and the same risk
\* configuration, with the same dedup predicate, return the same list: the
\* same signals in the same order, equal in every field.
C22_SameInputSameOutput ==
  Len(pout) = 2 => pout[1].top = pout[2].top

\* C18: the list scan returns (the ranked signals cut to the limit) is
\* ordered by riskScore descending, and among signals of equal riskScore by
\* score descending.
C18_RankedOrder ==
  pout # << >> =>
    LET top == pout[1].top IN
    \A i, j \in 1..Len(top) :
      i < j =>
        \/ top[i].riskScore > top[j].riskScore
        \/ /\ top[i].riskScore = top[j].riskScore
           /\ top[i].score >= top[j].score

\* C18 witness: three candidates came in ascending order and went out
\* reversed, the first two with the same riskScore and different scores
C18_Witness ==
  /\ pout # << >>
  /\ Len(pin.cands) = 3
  /\ LET top == pout[1].top IN
       /\ Len(top) = 3
       /\ top[1].riskScore = top[2].riskScore
       /\ top[1].score > top[2].score
       /\ top[2].riskScore > top[3].riskScore
       /\ KeyOf(pin.cands[1]) = KeyOf(top[3])
       /\ KeyOf(pin.cands[2]) = KeyOf(top[2])
       /\ KeyOf(pin.cands[3]) = KeyOf(top[1])

(***************************************************************************)
(* Properties of NansenTrader.scan and monitor                             *)
(***************************************************************************)
\* C5 (as claimed): when the fetch for one (chain, mode) pair fails during a
\* scan over several pairs, after another pair has succeeded, the scan does
\* not raise: it is still in flight after the failure, at the head of its
\* loop, to go on with the remaining pairs and return the signals of the
\* pairs that succeeded.
C5_ScanSurvivesFetchFailure ==
  (op.name = "scanFetchFailed" /\ op.pushed # << >>) => sc[op.scan].st = "loop"

\* the keys of the signals a scan returned
ReturnedKeys == {SignalKey(op.signals[i]) : i \in 1..Len(op.signals)}

\* C7 (as claimed): a scan that starts less than dedupeWindowMs after a
\* signal was logged by a scan that has returned returns no signal with the
\* same chain + token + mode.
C7_NoRepeatFromStart ==
  op.name = "scanReturned" => ReturnedKeys \cap op.recentAtStart = {}

\* C7 (amended): a scan whose deduplication step runs less than
\* dedupeWindowMs after a signal was logged by a scan that has returned
\* returns no signal with the same chain + token + mode.
C7_NoRepeatFromDedup ==
  op.name = "scanReturned" => ReturnedKeys \cap op.recentAtDedup = {}

\* C7 witness: a scan started after an earlier scan had logged a signal, was
\* handed a candidate with the same chain + token + mode inside the window,
\* and has returned
C7_Witness ==
  /\ op.name = "scanReturned"
  /\ Len(signals) > 0
  /\ \E i \in 1..Len(op.cands) :
       /\ SignalKey(op.cands[i]) \in op.recentAtDedup
       /\ SignalKey(op.cands[i]) \in op.recentAtStart

C17_NoTickAfterCancel ==
  [][mon.st = "cancelled" =>
       /\ mon'.st = "cancelled"
       /\ op'.name # "monitorTick"
       /\ \A s \in Scans : sc[s] = ScanIdle => sc'[s] = ScanIdle]_vars

\* C17 witness: the monitor is cancelled, the interval has elapsed and a scan
\* could still be started, and the tick that was in flight at the time of
\* the cancellation has just called onSignal
C17_Witness ==
  /\ mon.st = "cancelled"
  /\ now >= mon.due
  /\ \E s \in Scans : sc[s] = ScanIdle
  /\ op.name = "onSignal"

\* C19 (as claimed): the list scan returns has at most maxSignalsPerScan
\* entries, maxSignalsPerScan being that of the trader's risk configuration
\* merged with the call's riskOverride, whatever limit option the call had.
C19_AtMostMaxSignals ==
  op.name = "scanReturned" => Len(op.signals) <= op.risk.maxSignalsPerScan

\* C20: when scan returns, every signal of the returned list is in the store
\* under the id it carries, as the record of its chain, token, mode and
\* timestamp, so that markActed and recordOutcome find it by that id.
C20_ReturnedAreStored ==
  op.name = "scanReturned" =>
    \A i \in 1..Len(op.signals) :
      /\ MapHas(signals, op.signals[i].id)
      /\ KeyOf(MapGet(signals, op.signals[i].id)) = KeyOf(op.signals[i])

\* C20 witness: a scan returned two signals, one of which an earlier scan had
\* stored under the same id
C20_Witness ==
  /\ op.name = "scanReturned"
  /\ Len(op.signals) = 2
  /\ \E i \in 1..Len(op.signals) :
       /\ MapHas(signals, op.signals[i].id)
       /\ MapGet(signals, op.signals[i].id).loggedAt < op.signals[i].loggedAt

(***************************************************************************)
(* Properties of the chain filter and the limiter inside scan             *)
(***************************************************************************)

\* the chains asked for that the allow-list (when it is not empty) holds and
\* the deny-list does not
ExpectedChains(chains, risk) ==
  {c \in Range(chains) :
     /\ NonEmptyList(risk, "allowedChains") => c \in Range(risk.allowedChains)
     /\ Has(risk, "excludedChains") => c \notin Range(risk.excludedChains)}

\* C28: the chains scan acquires, looks up or fetches for are only chains
\* asked for that pass the allow-list (when non-empty) and the deny-list, and
\* a scan that returns has gone through exactly those chains
C28_OnlyFilteredChains ==
  /\ \A s \in Scans :
       sc[s] \notin {ScanIdle, ScanDone} =>
         /\ sc[s].touched \subseteq ExpectedChains(sc[s].chains, sc[s].risk)
         /\ \A i \in 1..Len(sc[s].pairs) :
              sc[s].pairs[i][1] \in ExpectedChains(sc[s].chains, sc[s].risk)
  /\ op.name = "scanReturned" =>
       op.touched = ExpectedChains(op.chains, op.risk)

\* a scan has returned after going through some chains and leaving out one
\* that an allow-list in force removed
C28_Witness ==
  /\ op.name = "scanReturned"
  /\ op.touched # {}
  /\ NonEmptyList(op.risk, "allowedChains")
  /\ Range(op.chains) \ op.touched # {}

\* the scan calls between the start of a pair and its cache lookup
AtLimiter == {s \in Scans : sc[s] \notin {ScanIdle, ScanDone} /\ sc[s].st = "acquiring"}

\* C29: with the limiter on, a pair's cache lookup starts only after the
\* acquire of that pair has returned, hit or miss, and the acquire calls made
\* are as many as the lookups made plus the pairs still at the limiter: one
\* acquire for each pair, one pair at a time
C29_OneAcquireBeforeEachLookup ==
  /\ [](enableRateLimit =>
          rlstats.totalRequests =
            cstats.hits + cstats.misses + Cardinality(AtLimiter))
  /\ [][(enableRateLimit /\ op'.name = "scanLookup") =>
          /\ sc[op'.scan].st = "acquiring"
          /\ rlpc[op'.scan] = Idle
          /\ rlpc'[op'.scan] = Idle
          /\ rlstats' = rlstats]_vars

\* a lookup that is a cache hit has started after an acquire that slept
C29_Witness ==
  /\ op.name = "scanLookup"
  /\ op.hit
  /\ enableRateLimit
  /\ rlstats.totalWaitTimeMs > 0

(***************************************************************************)
(* Properties of the persisted snapshot                                    *)
(***************************************************************************)

\* what reading field f of o gives: << >> for a field that is missing or
\* undefined
ReadField(o, f) == IF Has(o, f) /\ ~IsUndefined(o, f) THEN <<o[f]>> ELSE << >>

SameFields(a, b) ==
  \A f \in DOMAIN a \cup DOMAIN b : ReadField(a, f) = ReadField(b, f)

\* a parsed element of the snapshot and a stored signal read the same, field
\* by field, outcome included
SameSignal(a, b) ==
  /\ Has(a, "outcome") = Has(b, "outcome")
  /\ \A f \in (DOMAIN a \cup DOMAIN b) \ {"outcome"} :
       ReadField(a, f) = ReadField(b, f)
  /\ Has(a, "outcome") /\ Has(b, "outcome") => SameFields(a.outcome, b.outcome)

MutatingCalls == {"log", "logBatch", "markActed", "recordOutcome", "clear"}

Stored(Test(_)) == {signals[i] : i \in {j \in 1..Len(signals) : Test(signals[j])}}

\* C31 (as claimed): find({hasOutcome: true}) returns exactly the stored
\* signals that have an outcome, find({hasOutcome: false}) exactly those that
\* have none, and getStats().withOutcome counts the signals that
\* find({hasOutcome: true}) returns.
C31_HasOutcomeIsOutcomePresence ==
  /\ (op.name = "find" /\ op.filter = [hasOutcome |-> TRUE]) =>
       Range(op.result) = Stored(LAMBDA s : Has(s, "outcome"))
  /\ (op.name = "find" /\ op.filter = [hasOutcome |-> FALSE]) =>
       Range(op.result) = Stored(LAMBDA s : ~Has(s, "outcome"))
  /\ (op.name = "getStats" /\ op.filter = [chains |-> << >>]) =>
       op.stats.withOutcome = Len(find(signals, [hasOutcome |-> TRUE]))

(***************************************************************************)
(* Properties of enrichWithMcp                                             *)
(***************************************************************************)

\* a signal without the field enrichWithMcp sets
Plain(signal) == [k \in DOMAIN signal \ {"mcpAnalysis"} |-> signal[k]]

IsErrorMarker(signal) ==
  Has(signal, "mcpAnalysis") /\ Has(signal.mcpAnalysis, "error")

IsAnalyzed(signal) ==
  Has(signal, "mcpAnalysis") /\ signal.mcpAnalysis \in McpAnalyses

\* the scan calls that are inside enrichWithMcp
Enriching(s) ==
  /\ sc[s] \notin {ScanIdle, ScanDone}
  /\ sc[s].st \in {"enrich", "eacquiring", "elookup", "efetching"}

SamePlain(a, b) ==
  /\ Len(a) = Len(b)
  /\ \A j \in 1..Len(a) : Plain(a[j]) = Plain(b[j])

\* C32: a scan with analyze enters enrichWithMcp with the ranked list of the
\* pipeline and keeps that list, signal by signal, until it returns it; a
\* failed analysis marks its own signal and nothing else, and the enrichment
\* goes on; in the list returned the first three signals carry an analysis or
\* an error marker, the later ones neither, and every signal is in the store
C32_EnrichFailureIsLocal ==
  [][/\ op'.name = "scanRanked" =>
          sc'[op'.scan].top =
            Pipeline(sc[op'.scan].all, sc[op'.scan].risk, sc[op'.scan].limit,
                     signals, now).top
     /\ \A s \in Scans :
          Enriching(s) =>
            /\ sc'[s] # ScanDone => SamePlain(sc'[s].top, sc[s].top)
            /\ sc'[s] = ScanDone =>
                 op'.name = "scanReturned" /\ SamePlain(op'.signals, sc[s].top)
     /\ op'.name = "enrichFailed" =>
          LET s == op'.scan
              i == sc[s].ei
          IN  /\ sc'[s] \notin {ScanIdle, ScanDone}
              /\ sc'[s].st = "enrich"
              /\ IsErrorMarker(sc'[s].top[i])
              /\ \A j \in 1..Len(sc[s].top) :
                   j # i => sc'[s].top[j] = sc[s].top[j]
     /\ (op'.name = "scanReturned" /\ sc[op'.scan].analyze) =>
          LET top == op'.signals
          IN  \A j \in 1..Len(top) :
                /\ j <= 3 => IsErrorMarker(top[j]) \/ IsAnalyzed(top[j])
                /\ j > 3 => ~Has(top[j], "mcpAnalysis")
                /\ MapHas(signals', generateId(top[j]))]_vars

\* a scan has returned four signals: the analysis of the second failed, the
\* first and the third are analyzed, the fourth is not touched
C32_Witness ==
  /\ op.name = "scanReturned"
  /\ Len(op.signals) = 4
  /\ IsAnalyzed(op.signals[1])
  /\ IsErrorMarker(op.signals[2])
  /\ IsAnalyzed(op.signals[3])
  /\ \A j \in 1..4 : MapHas(signals, generateId(op.signals[j]))

(***************************************************************************)
(* Properties of a monitor tick in flight                                  *)
(***************************************************************************)

InFlight(s) == sc[s] \notin {ScanIdle, ScanDone}

\* the steps of scan call s as a monitor tick
TickSteps ==
  {"scanPair", "scanLookup", "scanFetched", "scanFetchFailed", "scanReturned",
   "onSignal", "tickDone"}

\* C33: calling the function monitor returned leaves the ticks in flight,
\* the seen set and the callbacks made as they are; after it a tick in flight
\* is changed by its own steps only and stays at a position from which its
\* scan or its delivery loop goes on, it ends without a failure only when
\* none of its signals is unseen, and each onSignal call is for the next
\* unseen signal of the tick
C33_CancelLeavesTickRunning ==
  [][/\ op'.name = "cancel" =>
          sc' = sc /\ delivered' = delivered /\ mon'.seen = mon.seen
     /\ mon.st = "cancelled" =>
          \A s \in Scans :
            InFlight(s) =>
              /\ sc[s].st \in {"loop", "lookup", "fetching", "deliver"}
              /\ sc'[s] # sc[s] => op'.name \in TickSteps /\ op'.scan = s
     /\ (mon.st = "cancelled" /\ op'.name = "tickDone") =>
          Unseen(op'.scan) = {}
     /\ (mon.st = "cancelled" /\ op'.name = "onSignal") =>
          LET s == op'.scan
              i == Least(Unseen(s))
          IN  /\ Len(delivered') = Len(delivered) + 1
              /\ delivered'[Len(delivered')].key = SignalKey(sc[s].top[i])
              /\ delivered'[Len(delivered')].tick = op'.tick]_vars

\* the monitor was cancelled while a tick was in flight (ticks start only
\* before the cancellation); the tick has gone on and onSignal has been called
\* for its second signal
C33_Witness ==
  /\ mon.st = "cancelled"
  /\ op.name = "onSignal"
  /\ Len(delivered) = 2
  /\ delivered[1].tick = delivered[2].tick
  /\ \A s \in Scans : sc[s] # ScanIdle => sc[s].st \in {"deliver", "done"}

(***************************************************************************)
(* Properties of the recorded outcome                                      *)
(***************************************************************************)

PriceFields == {"entryPrice", "exitPrice", "pnl"}

\* the fields of PriceFields set in the outcome of the stored signal id
PricesSet(m, id) ==
  IF MapHas(m, id) /\ Has(MapGet(m, id), "outcome")
  THEN PriceFields \cap DOMAIN MapGet(m, id).outcome
  ELSE {}

\* C34 (as claimed): the entryPrice, exitPrice and pnl set in a stored
\* signal's outcome stay set with the same values after a markActed call on
\* that signal, and stay set after a recordOutcome call that does not supply
\* them.
C34_PricesSurvive ==
  [][/\ op'.name = "markActed" =>
          \A f \in PricesSet(signals, op'.id) :
            /\ f \in PricesSet(signals', op'.id)
            /\ MapGet(signals', op'.id).outcome[f] =
                 MapGet(signals, op'.id).outcome[f]
     /\ op'.name = "recordOutcome" =>
          \A f \in PricesSet(signals, op'.id) \ DOMAIN op'.outcome :
            f \in PricesSet(signals', op'.id)]_vars

(***************************************************************************)
(* Properties of the cache counters                                        *)
(***************************************************************************)

\* C35: a getOrFetch call adds its credits to creditsSaved when it is served
\* from the cache and nothing otherwise, so creditsSaved is the sum of the
\* credits of the calls served from the cache; each get and getOrFetch lookup
\* adds one to hits or to misses and not to both; no other operation
\* (set, the end of a fetch, invalidate, invalidatePattern, clear, prune)
\* changes a counter
C35_CountersFollowLookups ==
  [][LET lookup == op'.name \in {"get", "getOrFetch"} IN
     /\ cstats'.creditsSaved =
          cstats.creditsSaved +
            (IF op'.name = "getOrFetch" /\ op'.hit THEN op'.credits ELSE 0)
     /\ lookup =>
          \/ cstats'.hits = cstats.hits + 1 /\ cstats'.misses = cstats.misses
          \/ cstats'.hits = cstats.hits /\ cstats'.misses = cstats.misses + 1
     /\ lookup => (op'.hit <=> cstats'.hits = cstats.hits + 1)
     /\ ~lookup => cstats' = cstats]_vars

\* clear has emptied a cache whose counters hold two misses, one hit and the
\* five credits of the getOrFetch call that was served from the cache
C35_Witness ==
  /\ op.name = "cacheClear"
  /\ cstats = [hits |-> 1, misses |-> 2, creditsSaved |-> 5]

(***************************************************************************)
(* Properties of overlapping getOrFetch calls                              *)
(***************************************************************************)

\* C36: a fetch that resolves hands its own value to its caller and writes
\* the entry of its key with that value and the expiry of its own ttl,
\* whatever entry an overlapping call has written in the meantime (last write
\* wins) and whatever another caller is still waiting for; a fetch that fails
\* leaves the store as it is
C36_LastWriteWins ==
  [][/\ op'.name = "fetched" =>
          LET p == op'.caller IN
          /\ op'.key = cpend[p].key
          /\ cstore'[op'.key] =
               [data |-> op'.value,
                expiry |-> now + EffectiveTtl(cpend[p].ttl, defaultTtl),
                hits |-> 0]
          /\ \A k \in DOMAIN cstore \ {op'.key} :
               Has(cstore', k) /\ cstore'[k] = cstore[k]
          /\ \A q \in Callers \ {p} : cpend'[q] = cpend[q]
     /\ op'.name = "fetchFailed" =>
          /\ cstore' = cstore
          /\ \A q \in Callers \ {op'.caller} : cpend'[q] = cpend[q]]_vars

\* two calls for one key both missed; the fetch that resolved second has
\* replaced the entry the other one wrote after this call's lookup, with
\* another value and a later expiry
C36_Witness ==
  /\ op.name = "fetched"
  /\ cstats.misses = 2 /\ cstats.hits = 0
  /\ op.over # << >>
  /\ now <= op.over[1].expiry
  /\ op.over[1].data # op.value
  /\ cstore[op.key].data = op.value
  /\ cstore[op.key].expiry > op.over[1].expiry
  /\ \A p \in Callers : cpend[p] = Idle

(***************************************************************************)
(* Properties of overlapping scans                                         *)
(***************************************************************************)

\* C37 (as claimed): a scan returns no signal whose chain + token + mode was
\* logged by another scan less than dedupeWindowMs before the return: between
\* the deduplication check of a scan and its logging no other scan logs the
\* same chain + token + mode, with analyze or without.
C37_DedupAndLogAtomic ==
  [][op'.name = "scanReturned" =>
       {SignalKey(op'.signals[i]) : i \in 1..Len(op'.signals)}
         \cap RecentKeys(signals, op'.risk.dedupeWindowMs, now) = {}]_vars

(***************************************************************************)
(* Properties of the callbacks of a monitor tick                           *)
(***************************************************************************)

\* C38 (as claimed): when the delivery loop of a tick ends, every signal the
\* tick's scan returned has been passed to onSignal or has its chain + token
\* + mode in the seen set, also when an onSignal call of the tick has failed;
\* a failure of the scan or of onSignal leaves the timer of the monitor as it
\* is.
C38_EveryUnseenSignalDelivered ==
  [][/\ \A s \in Scans :
          (InFlight(s) /\ sc[s].st = "deliver" /\ sc'[s] = ScanDone) =>
            \A j \in sc[s].di..Len(sc[s].top) :
              Has(mon'.seen, SignalKey(sc[s].top[j]))
     /\ (op'.name = "scanFetchFailed" \/ (op'.name = "onSignal" /\ ~op'.ok)) =>
          mon'.st = mon.st /\ mon'.due = mon.due]_vars

(***************************************************************************)
(* Properties of getStats                                                  *)
(***************************************************************************)

\* the sum of the counts of a histogram
RECURSIVE SumOver(_, _)
SumOver(h, keys) ==
  IF keys = {} THEN 0
  ELSE LET k == CHOOSE x \in keys : TRUE
       IN  h[k] + SumOver(h, keys \ {k})

\* C39: the counts getStats returns satisfy actedOn + skipped = totalSignals
\* and profitableCount <= withOutcome <= totalSignals, byChain and byMode
\* each sum to totalSignals, and winRate is profitableCount / withOutcome
\* when withOutcome > 0 and 0 otherwise
C39_StatsAreConsistent ==
  op.name = "getStats" =>
    LET st == op.stats IN
    /\ st.totalSignals = Len(find(signals, op.filter))
    /\ st.actedOn + st.skipped = st.totalSignals
    /\ st.profitableCount <= st.withOutcome
    /\ st.withOutcome <= st.totalSignals
    /\ SumOver(st.byChain, DOMAIN st.byChain) = st.totalSignals
    /\ SumOver(st.byMode, DOMAIN st.byMode) = st.totalSignals
    /\ st.withOutcome > 0 =>
         st.winRate[1] * st.withOutcome = st.profitableCount * st.winRate[2]
    /\ st.withOutcome = 0 => st.winRate[1] = 0

\* getStats has counted two signals on two chains and in two modes: one
\* acted on, both with a pnl, one of them profitable
C39_Witness ==
  /\ op.name = "getStats"
  /\ op.stats.totalSignals = 2
  /\ op.stats.actedOn = 1
  /\ op.stats.withOutcome = 2
  /\ op.stats.profitableCount = 1
  /\ Cardinality(DOMAIN op.stats.byChain) = 2
  /\ Cardinality(DOMAIN op.stats.byMode) = 2

====
